---- MODULE Spec2Model ----
(***************************************************************************)
(* Access-control core of the "distracted" browser extension: the unlock   *)
(* ledger, the relock alarms, the declarativeNetRequest rule table (MV3)   *)
(* and the webRequest in-memory backend (MV2), with every awaited browser  *)
(* call of a handler as one interleaving point.                            *)
(***************************************************************************)
EXTENDS Integers, Sequences, FiniteSets, TLC

VARIABLES
    isMV3,          \* import.meta.env.MANIFEST_VERSION === 3
    now,            \* Date.now(), in minutes
    blockedSites,   \* storage.local["blockedSites"]
    session,        \* storage.session: unlock_<siteId> -> UnlockState
    unlockedSites,  \* webRequest.ts: in-memory Map<string, UnlockState>
    cachedSites,    \* webRequest.ts: cachedSites
    alarms,         \* browser.alarms: relock_<siteId> -> scheduled time
    dynamicRules,   \* declarativeNetRequest dynamic rules
    tabs,           \* browser.tabs: tab id -> current URL
    tasks,          \* in-flight async handlers, one record per slot
    lastDone,       \* the call that settled last, with what it returned
    relocker,       \* per site: which handler deleted the current unlock's record
    calls,          \* calls made into the core so far
    granted         \* per site: the expiresAt the last settled grant returned, or -1

vars == <<isMV3, now, blockedSites, session, unlockedSites, cachedSites,
          alarms, dynamicRules, tabs, tasks, lastDone, relocker, calls, granted>>

----------------------------------------------------------------------------
(* Bounds of the model *)

MaxTasks == 2

MaxClock == 2

MaxCalls == 2

MaxSeqCalls == 3

(* Program constants *)

RULE_ID_BASE == 1000

MAX_RULES_PER_SITE == 100

DefaultDurationMinutes == 60

----------------------------------------------------------------------------
(* Text: a string is a sequence of one-character strings *)

StartsWith(s, p) == Len(p) <= Len(s) /\ SubSeq(s, 1, Len(p)) = p

EndsWith(s, p) == Len(p) <= Len(s) /\ SubSeq(s, Len(s) - Len(p) + 1, Len(s)) = p

Slice(s, n) == SubSeq(s, n + 1, Len(s))

StripPrefix(s, p) == IF StartsWith(s, p) THEN Slice(s, Len(p)) ELSE s

LowerChar(c) ==
    CASE c = "A" -> "a"
      [] c = "H" -> "h"
      [] c = "K" -> "k"
      [] c = "O" -> "o"
      [] c = "P" -> "p"
      [] c = "S" -> "s"
      [] c = "T" -> "t"
      [] c = "C" -> "c"
      [] c = "W" -> "w"
      [] OTHER -> c

ToLowerCase(s) == [i \in 1..Len(s) |-> LowerChar(s[i])]

RECURSIVE TrimStart(_)
TrimStart(s) == IF s # <<>> /\ Head(s) = " " THEN TrimStart(Tail(s)) ELSE s

RECURSIVE TrimEnd(_)
TrimEnd(s) ==
    IF s # <<>> /\ s[Len(s)] = " " THEN TrimEnd(SubSeq(s, 1, Len(s) - 1)) ELSE s

Trim(s) == TrimEnd(TrimStart(s))

Includes(s, c) == \E i \in 1..Len(s) : s[i] = c

IndexOf(s, c) == CHOOSE i \in 1..Len(s) : s[i] = c /\ \A j \in 1..(i - 1) : s[j] # c

HttpPrefix == <<"h", "t", "t", "p", ":", "/", "/">>

HttpsPrefix == <<"h", "t", "t", "p", "s", ":", "/", "/">>

WwwPrefix == <<"w", "w", "w", ".">>

WildcardPrefix == <<"*", ".">>

(* s.replace(/^https?:\/\//, ""): one scheme prefix goes, at most *)
StripScheme(s) ==
    IF StartsWith(s, HttpsPrefix) THEN Slice(s, Len(HttpsPrefix))
    ELSE IF StartsWith(s, HttpPrefix) THEN Slice(s, Len(HttpPrefix))
    ELSE s

(* pattern.toLowerCase().trim().replace(/^https?:\/\//, "").replace(/^www\./, "") *)
NormalizePattern(pattern) ==
    StripPrefix(StripScheme(Trim(ToLowerCase(pattern))), WwwPrefix)

----------------------------------------------------------------------------
(* Pattern matcher (lib/storage.ts) *)

(* variant: a host pattern matches its own host only *)
HostEquals(hostname, patternHost) ==
    IF StartsWith(patternHost, WildcardPrefix)
    THEN LET domain == Slice(patternHost, 2)
         IN  hostname = domain \/ EndsWith(hostname, <<".">> \o domain)
    ELSE hostname = patternHost

(* variant: a wildcard matches every host that ends with the domain *)
HostSuffix(hostname, patternHost) ==
    IF StartsWith(patternHost, WildcardPrefix)
    THEN EndsWith(hostname, Slice(patternHost, 2))
    ELSE \/ hostname = patternHost
         \/ hostname = WwwPrefix \o patternHost
         \/ StripPrefix(hostname, WwwPrefix) = patternHost

HostMatches(hostname, patternHost) ==
    IF StartsWith(patternHost, WildcardPrefix)
    THEN LET domain == Slice(patternHost, 2)
         IN  hostname = domain \/ EndsWith(hostname, <<".">> \o domain)
    ELSE \/ hostname = patternHost
         \/ hostname = WwwPrefix \o patternHost
         \/ StripPrefix(hostname, WwwPrefix) = patternHost

StripTrailingSlash(p) ==
    IF p # <<>> /\ p[Len(p)] = "/" THEN SubSeq(p, 1, Len(p) - 1) ELSE p

(* variant: the path of a pattern is ignored *)
urlMatchesHost(url, pattern) ==
    IF ~url.valid THEN FALSE
    ELSE LET normalizedPattern == NormalizePattern(pattern)
         IN  IF Includes(normalizedPattern, "/")
             THEN HostMatches(ToLowerCase(url.hostname),
                              SubSeq(normalizedPattern, 1,
                                     IndexOf(normalizedPattern, "/") - 1))
             ELSE HostMatches(ToLowerCase(url.hostname), normalizedPattern)

urlMatchesPattern(url, pattern) ==
    IF ~url.valid THEN FALSE
    ELSE LET hostname == ToLowerCase(url.hostname)
             pathname == ToLowerCase(url.pathname)
             normalizedPattern == NormalizePattern(pattern)
         IN  IF Includes(normalizedPattern, "/")
             THEN LET cut == IndexOf(normalizedPattern, "/")
                      patternHost == SubSeq(normalizedPattern, 1, cut - 1)
                      patternPath == SubSeq(normalizedPattern, cut,
                                            Len(normalizedPattern))
                  IN  /\ HostMatches(hostname, patternHost)
                      /\ \/ StartsWith(pathname, patternPath)
                         \/ pathname = StripTrailingSlash(patternPath)
             ELSE HostMatches(hostname, normalizedPattern)

(* variant: the first matching rule decides *)
RulesFirstMatch(url, rules, i, isBlocked) ==
    LET hits == {k \in i..Len(rules) : urlMatchesPattern(url, rules[k].pattern)}
    IN  IF hits = {} THEN isBlocked
        ELSE ~rules[CHOOSE k \in hits : \A j \in hits : k <= j].allow

RECURSIVE RulesLoop(_, _, _, _)
RulesLoop(url, rules, i, isBlocked) ==
    IF i > Len(rules) THEN isBlocked
    ELSE IF urlMatchesPattern(url, rules[i].pattern)
         THEN IF rules[i].allow THEN FALSE
              ELSE RulesLoop(url, rules, i + 1, TRUE)
         ELSE RulesLoop(url, rules, i + 1, isBlocked)

urlMatchesSiteRules(url, site) ==
    IF ~site.enabled THEN FALSE ELSE RulesLoop(url, site.rules, 1, FALSE)

(* lib/utils.ts: extension pages, browser pages and about: pages *)
isInternalUrl(url) == url.scheme \in {"chrome-extension", "chrome", "about"}

----------------------------------------------------------------------------
(* Data *)

SiteIds == {"a", "b"}

TabIds == {1}

NoState == [siteId |-> "", expiresAt |-> -1]

NoAlarm == -1

NoUrl == [valid |-> FALSE, scheme |-> "", hostname |-> <<>>, pathname |-> <<>>,
          query |-> <<>>]

Web(hostname, pathname) ==
    [valid |-> TRUE, scheme |-> "https", hostname |-> hostname,
     pathname |-> pathname, query |-> <<>>]

(* browser.runtime.getURL(`/blocked.html?url=${url}&siteId=${siteId}`) *)
BlockedPageUrl(url, siteId) ==
    [valid |-> TRUE, scheme |-> "chrome-extension", hostname |-> <<"x">>,
     pathname |-> <<"/", "b">>, query |-> <<url, siteId>>]

UrlA == Web(<<"w", "w", "w", ".", "a", ".", "c">>, <<"/">>)

UrlAOk == Web(<<"a", ".", "c">>, <<"/", "o", "k">>)

UrlB == Web(<<"s", ".", "b", ".", "c">>, <<"/">>)

Urls == {UrlA, UrlAOk, UrlB}

Rule(pattern, allow) == [pattern |-> pattern, allow |-> allow]

SiteA == [id |-> "a", enabled |-> TRUE,
          rules |-> <<Rule(<<"A", ".", "c">>, FALSE),
                      Rule(<<"a", ".", "c", "/", "o", "k">>, TRUE)>>]

SiteB == [id |-> "b", enabled |-> TRUE,
          rules |-> <<Rule(<<"*", ".", "b", ".", "c">>, FALSE)>>]

(* durationMinutes: number | null *)
Null == -1

Durations == {1, 2}

----------------------------------------------------------------------------
(* Rule table (blockers/dnr.ts, syncDnrRules) *)

RegexSpecials == {".", "+", "?", "^", "$", "{", "}", "(", ")", "|", "[", "]", "\\"}

RECURSIVE EscapeRegex(_)
EscapeRegex(s) ==
    IF s = <<>> THEN <<>>
    ELSE IF Head(s) \in RegexSpecials
         THEN <<"\\", Head(s)>> \o EscapeRegex(Tail(s))
         ELSE <<Head(s)>> \o EscapeRegex(Tail(s))

RECURSIVE StarToDotStar(_)
StarToDotStar(s) ==
    IF s = <<>> THEN <<>>
    ELSE IF Head(s) = "*"
         THEN <<".", "*">> \o StarToDotStar(Tail(s))
         ELSE <<Head(s)>> \o StarToDotStar(Tail(s))

(* the pattern part of regexFilter, between the fixed scheme-and-www prefix
   and the fixed match-anything suffix *)
RegexFilter(pattern) ==
    LET normalized == NormalizePattern(pattern)
        dnrFilter == IF StartsWith(normalized, WildcardPrefix)
                     THEN Slice(normalized, 2) ELSE normalized
    IN  StarToDotStar(EscapeRegex(dnrFilter))

(* the compiled pattern as the regex engine reads it: an escaped character is
   that character, the pair .* is any run of characters *)
RECURSIVE RegexTokens(_)
RegexTokens(f) ==
    IF f = <<>> THEN <<>>
    ELSE IF Head(f) = "\\" /\ Len(f) >= 2
         THEN <<[any |-> FALSE, char |-> f[2]]>> \o RegexTokens(Slice(f, 2))
    ELSE IF Head(f) = "." /\ Len(f) >= 2 /\ f[2] = "*"
         THEN <<[any |-> TRUE, char |-> ""]>> \o RegexTokens(Slice(f, 2))
    ELSE <<[any |-> FALSE, char |-> Head(f)]>> \o RegexTokens(Tail(f))

(* some prefix of s matches the tokens; what follows is taken by the closing .* *)
RECURSIVE PrefixMatches(_, _)
PrefixMatches(tokens, s) ==
    IF tokens = <<>> THEN TRUE
    ELSE IF Head(tokens).any
         THEN \E k \in 0..Len(s) : PrefixMatches(Tail(tokens), Slice(s, k))
    ELSE /\ s # <<>>
         /\ LowerChar(Head(s)) = LowerChar(Head(tokens).char)
         /\ PrefixMatches(Tail(tokens), Tail(s))

(* what follows the scheme in the text of the URL *)
AfterScheme(url) ==
    LET search == IF url.query = <<>> THEN <<>> ELSE <<"?">> \o url.query
    IN  url.hostname \o url.pathname \o search

(* the regexFilter, scheme, optional www., pattern, anything, matched against the
   whole URL of a main_frame request *)
RegexMatches(regexFilter, url) ==
    /\ url.valid
    /\ url.scheme \in {"http", "https"}
    /\ \/ PrefixMatches(RegexTokens(regexFilter), AfterScheme(url))
       \/ /\ StartsWith(AfterScheme(url), WwwPrefix)
          /\ PrefixMatches(RegexTokens(regexFilter),
                           Slice(AfterScheme(url), Len(WwwPrefix)))

(* the browser blocks the top-level request: some installed rule matches (every
   rule of the table is a block rule of priority 1) *)
TableBlocks(url) == \E rule \in dynamicRules : RegexMatches(rule.regexFilter, url)

(* variant: the resync ignores the ledger *)
NoUnlockedIds(sess, time) == {}

unlockedIds(sess, time) ==
    {sess[k].siteId : k \in {j \in SiteIds : sess[j] # NoState /\ sess[j].expiresAt > time}}

(* variant: the resync compiles the rules of disabled sites too *)
SiteRulesOfDisabled(site, index, unlocked) ==
    IF site.id \in unlocked THEN <<>>
    ELSE LET blockPatterns == SelectSeq(site.rules, LAMBDA r : ~r.allow)
         IN  [j \in 1..Len(blockPatterns) |->
                [id |-> RULE_ID_BASE + index * MAX_RULES_PER_SITE + (j - 1),
                 priority |-> 1,
                 action |-> "block",
                 regexFilter |-> RegexFilter(blockPatterns[j].pattern),
                 resourceTypes |-> {"main_frame"}]]

(* variant: the id is base + siteIndex + patternIndex *)
SiteRulesDenseIds(site, index, unlocked) ==
    IF ~site.enabled \/ site.id \in unlocked THEN <<>>
    ELSE LET blockPatterns == SelectSeq(site.rules, LAMBDA r : ~r.allow)
         IN  [j \in 1..Len(blockPatterns) |->
                [id |-> RULE_ID_BASE + index + (j - 1),
                 priority |-> 1,
                 action |-> "block",
                 regexFilter |-> RegexFilter(blockPatterns[j].pattern),
                 resourceTypes |-> {"main_frame"}]]

SiteRules(site, index, unlocked) ==
    IF ~site.enabled \/ site.id \in unlocked THEN <<>>
    ELSE LET blockPatterns == SelectSeq(site.rules, LAMBDA r : ~r.allow)
         IN  [j \in 1..Len(blockPatterns) |->
                [id |-> RULE_ID_BASE + index * MAX_RULES_PER_SITE + (j - 1),
                 priority |-> 1,
                 action |-> "block",
                 regexFilter |-> RegexFilter(blockPatterns[j].pattern),
                 resourceTypes |-> {"main_frame"}]]

RECURSIVE CompileFrom(_, _, _)
CompileFrom(sites, i, unlocked) ==
    IF i > Len(sites) THEN <<>>
    ELSE SiteRules(sites[i], i - 1, unlocked) \o CompileFrom(sites, i + 1, unlocked)

newRulesOf(sites, sess, time) == CompileFrom(sites, 1, unlockedIds(sess, time))

RuleIds(rules) == {r.id : r \in rules}

SeqRange(q) == {q[i] : i \in 1..Len(q)}

(* declarativeNetRequest.updateDynamicRules: the ids of removeRuleIds go first,
   then addRules are added; an added id that is already taken, or taken twice,
   rejects the whole call *)
UpdateRejected(table, removeRuleIds, addRules) ==
    \/ \E i, j \in 1..Len(addRules) : i # j /\ addRules[i].id = addRules[j].id
    \/ \E i \in 1..Len(addRules) :
          addRules[i].id \in RuleIds({r \in table : r.id \notin removeRuleIds})

(* variant: the update adds the new rules and removes none *)
AddedRules(table, removeRuleIds, addRules) == table \cup SeqRange(addRules)

UpdatedRules(table, removeRuleIds, addRules) ==
    {r \in table : r.id \notin removeRuleIds} \cup SeqRange(addRules)

----------------------------------------------------------------------------
(* Async handlers: a task is one call in flight, pc the awaited call it is at.
   found records what the call met in the ledger: for a revoke or a relock the
   record it deleted, for a grant a record expiring later than the one it wrote,
   for a start an expired record. *)

Tasks == 1..MaxTasks

IdleTask ==
    [op |-> "idle", pc |-> "idle", siteId |-> "", expiresAt |-> -1, when |-> -1,
     found |-> FALSE, sites |-> <<>>, existing |-> {}, newRules |-> <<>>,
     expired |-> <<>>, tabsOut |-> <<>>, todo |-> <<>>, url |-> NoUrl,
     arg |-> 0, again |-> FALSE]

(* event is the runtime message the handler broadcast before it settled: the
   UNLOCK_SITE case and the onAlarm listener of the background entry send none *)
NoCall ==
    [op |-> "none", siteId |-> "", expiresAt |-> -1, unlocked |-> FALSE,
     tabsOut |-> <<>>, err |-> FALSE, found |-> FALSE, arg |-> 0, again |-> FALSE,
     url |-> NoUrl, tab |-> 0, type |-> "", cancel |-> FALSE, event |-> "none"]

NewTask(op, pc, siteId) == [IdleTask EXCEPT !.op = op, !.pc = pc, !.siteId = siteId]

FreeSlot(t) ==
    /\ tasks[t].op = "idle"
    /\ \A u \in 1..(t - 1) : tasks[u].op # "idle"

AllIdle == \A t \in Tasks : tasks[t].op = "idle"

At(t, pc) == tasks[t].op # "idle" /\ tasks[t].pc = pc

Goto(t, pc) == tasks' = [tasks EXCEPT ![t].pc = pc]

(* the call settles: its promise resolves (or rejects, err) and the slot is free *)
SettleWith(t, expiresAt, unlocked, tabsOut, err) ==
    /\ tasks' = [tasks EXCEPT ![t] = IdleTask]
    /\ lastDone' = [NoCall EXCEPT !.op = tasks[t].op, !.siteId = tasks[t].siteId,
                                  !.expiresAt = expiresAt, !.unlocked = unlocked,
                                  !.tabsOut = tabsOut, !.err = err,
                                  !.found = tasks[t].found, !.arg = tasks[t].arg,
                                  !.again = tasks[t].again]

(* one more call from a page, the popup or the platform *)
Count == calls' = calls + 1

(* a step that settles no call: the last result has been consumed *)
Forget == lastDone' = NoCall

Settle(t, unlocked, tabsOut, err) ==
    SettleWith(t, tasks[t].expiresAt, unlocked, tabsOut, err)

SiteById(sites, siteId) ==
    LET hits == {i \in 1..Len(sites) : sites[i].id = siteId}
    IN  IF hits = {} THEN <<>>
        ELSE <<sites[CHOOSE i \in hits : \A j \in hits : i <= j]>>

RECURSIVE SortedSeq(_)
SortedSeq(S) ==
    IF S = {} THEN <<>>
    ELSE LET m == CHOOSE x \in S : \A y \in S : x <= y
         IN  <<m>> \o SortedSeq(S \ {m})

(* ids come in key order; the model fixes the order a before b *)
RECURSIVE IdSeq(_)
IdSeq(S) ==
    IF S = {} THEN <<>>
    ELSE LET m == IF "a" \in S THEN "a" ELSE CHOOSE x \in S : TRUE
         IN  <<m>> \o IdSeq(S \ {m})

(* durationMinutes ?? 0 *)
DurationOrZero(durationMinutes) ==
    IF durationMinutes = Null THEN 0 ELSE durationMinutes

(* durationMinutes ?? 1 *)
DurationOrOne(durationMinutes) ==
    IF durationMinutes = Null THEN 1 ELSE durationMinutes

DurationMinutes(durationMinutes) ==
    IF durationMinutes = Null THEN DefaultDurationMinutes ELSE durationMinutes

----------------------------------------------------------------------------
(* grantAccess *)

(* UNLOCK_SITE: expiresAt is computed at the call; the rule-table backend then
   awaits storage.session.set, the live-intercept backend writes its Map at once *)
GrantAccess(t, siteId, durationMinutes) ==
    /\ FreeSlot(t)
    /\ now <= MaxClock
    /\ LET expiresAt == now + DurationMinutes(durationMinutes)
           task == [NewTask("grant", IF isMV3 THEN "g_set" ELSE "g_alarm", siteId)
                       EXCEPT !.expiresAt = expiresAt, !.arg = durationMinutes,
                              !.found = /\ ~isMV3
                                        /\ unlockedSites[siteId].expiresAt > expiresAt]
       IN  /\ tasks' = [tasks EXCEPT ![t] = task]
           /\ IF isMV3
              THEN UNCHANGED <<unlockedSites, relocker>>
              ELSE /\ unlockedSites' = [unlockedSites EXCEPT ![siteId] =
                                           [siteId |-> siteId, expiresAt |-> expiresAt]]
                   /\ relocker' = [relocker EXCEPT ![siteId] = "none"]
    /\ Count
    /\ granted' = [granted EXCEPT ![siteId] = -1]
    /\ UNCHANGED <<isMV3, now, blockedSites, session, cachedSites, alarms,
                   dynamicRules, tabs>>
    /\ Forget

GrantSet(t) ==
    /\ At(t, "g_set")
    /\ session' = [session EXCEPT ![tasks[t].siteId] =
                      [siteId |-> tasks[t].siteId, expiresAt |-> tasks[t].expiresAt]]
    /\ relocker' = [relocker EXCEPT ![tasks[t].siteId] = "none"]
    /\ tasks' = [tasks EXCEPT ![t].pc = "s_sites",
                              ![t].found = session[tasks[t].siteId].expiresAt
                                               > tasks[t].expiresAt]
    /\ UNCHANGED <<isMV3, calls, granted, now, blockedSites, unlockedSites, cachedSites, alarms,
                   dynamicRules, tabs>>
    /\ Forget

GrantCreateAlarm(t) ==
    /\ At(t, "g_alarm")
    /\ alarms' = [alarms EXCEPT ![tasks[t].siteId] = tasks[t].expiresAt]
    /\ Settle(t, FALSE, <<>>, FALSE)
    /\ granted' = [granted EXCEPT ![tasks[t].siteId] = tasks[t].expiresAt]
    /\ UNCHANGED <<isMV3, calls, now, blockedSites, session, unlockedSites, cachedSites,
                   dynamicRules, tabs, relocker>>

----------------------------------------------------------------------------
(* syncDnrRules, one step per awaited call *)

SyncGetSites(t) ==
    /\ At(t, "s_sites")
    /\ tasks' = [tasks EXCEPT ![t].sites = blockedSites, ![t].pc = "s_rules"]
    /\ UNCHANGED <<isMV3, calls, granted, now, blockedSites, session, unlockedSites, cachedSites,
                   alarms, dynamicRules, tabs, relocker>>
    /\ Forget

SyncGetRules(t) ==
    /\ At(t, "s_rules")
    /\ tasks' = [tasks EXCEPT ![t].existing = RuleIds(dynamicRules),
                              ![t].pc = "s_session"]
    /\ UNCHANGED <<isMV3, calls, granted, now, blockedSites, session, unlockedSites, cachedSites,
                   alarms, dynamicRules, tabs, relocker>>
    /\ Forget

SyncGetSession(t) ==
    /\ At(t, "s_session")
    /\ tasks' = [tasks EXCEPT ![t].newRules = newRulesOf(tasks[t].sites, session, now),
                              ![t].pc = "s_update"]
    /\ UNCHANGED <<isMV3, calls, granted, now, blockedSites, session, unlockedSites, cachedSites,
                   alarms, dynamicRules, tabs, relocker>>
    /\ Forget

SyncUpdate(t) ==
    /\ At(t, "s_update")
    /\ IF UpdateRejected(dynamicRules, tasks[t].existing, tasks[t].newRules)
       THEN /\ UNCHANGED dynamicRules
            /\ Settle(t, FALSE, <<>>, TRUE)
       ELSE /\ dynamicRules' = UpdatedRules(dynamicRules, tasks[t].existing,
                                            tasks[t].newRules)
            /\ IF tasks[t].op \in {"sync", "init"}
               THEN Settle(t, FALSE, <<>>, FALSE)
               ELSE /\ Goto(t, IF tasks[t].op = "grant" THEN "g_alarm" ELSE "t_sites")
                    /\ Forget
    /\ UNCHANGED <<isMV3, calls, granted, now, blockedSites, session, unlockedSites, cachedSites,
                   alarms, tabs, relocker>>

----------------------------------------------------------------------------
(* revokeAccess, handleRelockAlarm and the onAlarm listener *)

(* what revokeAccess returns: to its caller, or to the onAlarm listener's loop *)
ReturnTabs(t, list) ==
    IF tasks[t].op = "revoke" \/ list = <<>>
    THEN Settle(t, FALSE, list, FALSE)
    ELSE /\ tasks' = [tasks EXCEPT ![t].tabsOut = list, ![t].todo = list,
                                   ![t].pc = "rd_get"]
         /\ Forget

StartRevoke(t, op, siteId, when) ==
    LET task == [NewTask(op, IF isMV3 THEN "r_remove" ELSE "r_clear", siteId)
                    EXCEPT !.when = when,
                           !.again = /\ op = "revoke"
                                     /\ lastDone.op = "revoke"
                                     /\ lastDone.siteId = siteId,
                           !.found = ~isMV3 /\ unlockedSites[siteId] # NoState]
    IN  /\ tasks' = [tasks EXCEPT ![t] = task]
        /\ granted' = [granted EXCEPT ![siteId] = -1]
        /\ IF isMV3
           THEN UNCHANGED <<unlockedSites, relocker>>
           ELSE /\ unlockedSites' = [unlockedSites EXCEPT ![siteId] = NoState]
                /\ relocker' = IF task.found
                               THEN [relocker EXCEPT ![siteId] = op] ELSE relocker

RevokeAccess(t, siteId) ==
    /\ FreeSlot(t)
    /\ StartRevoke(t, "revoke", siteId, -1)
    /\ Count
    /\ UNCHANGED <<isMV3, now, blockedSites, session, cachedSites, alarms,
                   dynamicRules, tabs>>
    /\ Forget

(* a one-shot alarm whose time has come is delivered and is gone *)
AlarmFire(t, siteId) ==
    /\ FreeSlot(t)
    /\ alarms[siteId] # NoAlarm
    /\ alarms[siteId] <= now
    /\ alarms' = [alarms EXCEPT ![siteId] = NoAlarm]
    /\ StartRevoke(t, "alarm", siteId, alarms[siteId])
    /\ UNCHANGED <<isMV3, calls, now, blockedSites, session, cachedSites, dynamicRules,
                   tabs>>
    /\ Forget

RevokeRemove(t) ==
    /\ At(t, "r_remove")
    /\ LET siteId == tasks[t].siteId
           found == session[siteId] # NoState
       IN  /\ session' = [session EXCEPT ![siteId] = NoState]
           /\ tasks' = [tasks EXCEPT ![t].found = found, ![t].pc = "r_clear"]
           /\ relocker' = IF found THEN [relocker EXCEPT ![siteId] = tasks[t].op]
                          ELSE relocker
    /\ UNCHANGED <<isMV3, calls, granted, now, blockedSites, unlockedSites, cachedSites, alarms,
                   dynamicRules, tabs>>
    /\ Forget

RevokeClear(t) ==
    /\ At(t, "r_clear")
    /\ alarms' = [alarms EXCEPT ![tasks[t].siteId] = NoAlarm]
    /\ IF isMV3
       THEN Goto(t, "s_sites") /\ Forget
       ELSE LET site == SiteById(cachedSites, tasks[t].siteId)
            IN  IF site = <<>> THEN ReturnTabs(t, <<>>)
                ELSE /\ tasks' = [tasks EXCEPT ![t].sites = site, ![t].pc = "t_query"]
                     /\ Forget
    /\ UNCHANGED <<isMV3, calls, granted, now, blockedSites, session, unlockedSites, cachedSites,
                   dynamicRules, tabs, relocker>>

(* findTabsOnBlockedSite *)
TabsGetSites(t) ==
    /\ At(t, "t_sites")
    /\ LET site == SiteById(blockedSites, tasks[t].siteId)
       IN  IF site = <<>> THEN ReturnTabs(t, <<>>)
           ELSE /\ tasks' = [tasks EXCEPT ![t].sites = site, ![t].pc = "t_query"]
                /\ Forget
    /\ UNCHANGED <<isMV3, calls, granted, now, blockedSites, session, unlockedSites, cachedSites,
                   alarms, dynamicRules, tabs, relocker>>

(* every open tab, whatever its URL *)
EveryTabId(site) == SortedSeq({id \in DOMAIN tabs : tabs[id] # NoUrl})

(* variant: every tab that shows no internal page is listed *)
NonInternalTabIds(site) ==
    SortedSeq({id \in DOMAIN tabs : tabs[id] # NoUrl /\ ~isInternalUrl(tabs[id])})

MatchingTabIds(site) ==
    SortedSeq({id \in DOMAIN tabs : /\ tabs[id] # NoUrl
                               /\ ~isInternalUrl(tabs[id])
                               /\ urlMatchesSiteRules(tabs[id], site)})

TabsQuery(t) ==
    /\ At(t, "t_query")
    /\ ReturnTabs(t, MatchingTabIds(tasks[t].sites[1]))
    /\ UNCHANGED <<isMV3, calls, granted, now, blockedSites, session, unlockedSites, cachedSites,
                   alarms, dynamicRules, tabs, relocker>>

NextTab(t) ==
    IF Len(tasks[t].todo) = 1
    THEN Settle(t, FALSE, tasks[t].tabsOut, FALSE)
    ELSE /\ tasks' = [tasks EXCEPT ![t].todo = Tail(tasks[t].todo), ![t].pc = "rd_get"]
         /\ Forget

(* variant: a tab that is gone ends the loop *)
RedirectGetAborting(t) ==
    /\ At(t, "rd_get")
    /\ LET tab == tabs[Head(tasks[t].todo)]
       IN  IF tab = NoUrl THEN Settle(t, FALSE, tasks[t].tabsOut, FALSE)
           ELSE /\ tasks' = [tasks EXCEPT ![t].url = tab, ![t].pc = "rd_update"]
                /\ Forget
    /\ UNCHANGED <<isMV3, calls, granted, now, blockedSites, session, unlockedSites, cachedSites,
                   alarms, dynamicRules, tabs, relocker>>

(* the user closes a tab *)
CloseTab(id) ==
    /\ tabs[id] # NoUrl
    /\ tabs' = [tabs EXCEPT ![id] = NoUrl]
    /\ Count
    /\ UNCHANGED <<isMV3, granted, now, blockedSites, session, unlockedSites, cachedSites,
                   alarms, dynamicRules, tasks, relocker>>
    /\ Forget

RedirectGet(t) ==
    /\ At(t, "rd_get")
    /\ LET tab == tabs[Head(tasks[t].todo)]
       IN  IF tab = NoUrl THEN NextTab(t)
           ELSE /\ tasks' = [tasks EXCEPT ![t].url = tab, ![t].pc = "rd_update"]
                /\ Forget
    /\ UNCHANGED <<isMV3, calls, granted, now, blockedSites, session, unlockedSites, cachedSites,
                   alarms, dynamicRules, tabs, relocker>>

(* variant: the redirect carries the URL the tab shows instead of the URL the
   handler holds *)
RedirectUpdateTabUrl(t) ==
    /\ At(t, "rd_update")
    /\ tabs' = [tabs EXCEPT ![Head(tasks[t].todo)] =
                    BlockedPageUrl(tabs[Head(tasks[t].todo)], tasks[t].siteId)]
    /\ NextTab(t)
    /\ UNCHANGED <<isMV3, calls, granted, now, blockedSites, session, unlockedSites, cachedSites,
                   alarms, dynamicRules, relocker>>

(* tabs.update of a tab that was closed meanwhile rejects; the loop catches it *)
RedirectUpdate(t) ==
    /\ At(t, "rd_update")
    /\ tabs' = IF tabs[Head(tasks[t].todo)] = NoUrl THEN tabs
               ELSE [tabs EXCEPT ![Head(tasks[t].todo)] =
                        BlockedPageUrl(tasks[t].url, tasks[t].siteId)]
    /\ NextTab(t)
    /\ UNCHANGED <<isMV3, calls, granted, now, blockedSites, session, unlockedSites, cachedSites,
                   alarms, dynamicRules, relocker>>

----------------------------------------------------------------------------
(* isSiteUnlocked *)

(* state.expiresAt <= Date.now() *)
(* a record is live until, not through, its expiresAt *)
ExpiredStrictly(state, time) == state.expiresAt < time

Expired(state, time) == state.expiresAt <= time

(* the live-intercept variant has no awaited call: it runs in one piece *)
IsSiteUnlocked(t, siteId) ==
    /\ FreeSlot(t)
    /\ IF isMV3
       THEN /\ tasks' = [tasks EXCEPT ![t] = NewTask("isUnlocked", "u_get", siteId)]
            /\ UNCHANGED unlockedSites
            /\ Forget
       ELSE LET state == unlockedSites[siteId]
                live == state # NoState /\ ~Expired(state, now)
            IN  /\ unlockedSites' = IF state # NoState /\ Expired(state, now)
                                    THEN [unlockedSites EXCEPT ![siteId] = NoState]
                                    ELSE unlockedSites
                /\ tasks' = tasks
                /\ lastDone' = [NoCall EXCEPT !.op = "isUnlocked", !.siteId = siteId,
                                              !.expiresAt = state.expiresAt,
                                              !.unlocked = live]
    /\ Count
    /\ UNCHANGED <<isMV3, granted, now, blockedSites, session, cachedSites, alarms,
                   dynamicRules, tabs, relocker>>

(* getUnlockState (peek): the same reads and the same lazy delete as
   isSiteUnlocked, the answer being the record instead of a boolean; on the
   rule-table backend it goes on through UnlockGet and UnlockRemove *)
GetUnlockState(t, siteId) ==
    /\ FreeSlot(t)
    /\ IF isMV3
       THEN /\ tasks' = [tasks EXCEPT ![t] = NewTask("peek", "u_get", siteId)]
            /\ UNCHANGED unlockedSites
            /\ Forget
       ELSE LET state == unlockedSites[siteId]
                live == state # NoState /\ ~Expired(state, now)
            IN  /\ unlockedSites' = IF state # NoState /\ Expired(state, now)
                                    THEN [unlockedSites EXCEPT ![siteId] = NoState]
                                    ELSE unlockedSites
                /\ tasks' = tasks
                /\ lastDone' = [NoCall EXCEPT !.op = "peek", !.siteId = siteId,
                                              !.expiresAt = state.expiresAt,
                                              !.unlocked = live]
    /\ Count
    /\ UNCHANGED <<isMV3, granted, now, blockedSites, session, cachedSites, alarms,
                   dynamicRules, tabs, relocker>>

UnlockGet(t) ==
    /\ At(t, "u_get")
    /\ LET state == session[tasks[t].siteId]
       IN  IF state = NoState THEN Settle(t, FALSE, <<>>, FALSE)
           ELSE IF Expired(state, now)
                THEN /\ tasks' = [tasks EXCEPT ![t].expiresAt = state.expiresAt,
                                               ![t].found = TRUE,
                                               ![t].pc = "u_remove"]
                     /\ Forget
                ELSE SettleWith(t, state.expiresAt, TRUE, <<>>, FALSE)
    /\ UNCHANGED <<isMV3, calls, granted, now, blockedSites, session, unlockedSites, cachedSites,
                   alarms, dynamicRules, tabs, relocker>>

(* variant: the expired record is reported but left in the ledger *)
UnlockRemoveKeeping(t) ==
    /\ At(t, "u_remove")
    /\ UNCHANGED session
    /\ Settle(t, FALSE, <<>>, FALSE)
    /\ UNCHANGED <<isMV3, calls, granted, now, blockedSites, unlockedSites, cachedSites, alarms,
                   dynamicRules, tabs, relocker>>

UnlockRemove(t) ==
    /\ At(t, "u_remove")
    /\ session' = [session EXCEPT ![tasks[t].siteId] = NoState]
    /\ Settle(t, FALSE, <<>>, FALSE)
    /\ UNCHANGED <<isMV3, calls, granted, now, blockedSites, unlockedSites, cachedSites, alarms,
                   dynamicRules, tabs, relocker>>

----------------------------------------------------------------------------
(* storage.onChanged listener, syncRules and refreshCache *)

(* handleToggleSite: updateBlockedSite(id, {enabled}) rewrites the stored list and
   the background listener starts a resync *)
ToggleSite(t, i) ==
    /\ FreeSlot(t)
    /\ i \in 1..Len(blockedSites)
    /\ blockedSites' = [blockedSites EXCEPT ![i].enabled = ~blockedSites[i].enabled]
    /\ tasks' = [tasks EXCEPT ![t] =
                    NewTask("sync", IF isMV3 THEN "s_sites" ELSE "c_get", "")]
    /\ Count
    /\ UNCHANGED <<isMV3, granted, now, session, unlockedSites, cachedSites, alarms,
                   dynamicRules, tabs, relocker>>
    /\ Forget

CacheGet(t) ==
    /\ At(t, "c_get")
    /\ tasks' = [tasks EXCEPT ![t].sites = blockedSites, ![t].pc = "c_assign"]
    /\ UNCHANGED <<isMV3, calls, granted, now, blockedSites, session, unlockedSites, cachedSites,
                   alarms, dynamicRules, tabs, relocker>>
    /\ Forget

CacheAssign(t) ==
    /\ At(t, "c_assign")
    /\ cachedSites' = tasks[t].sites
    /\ Settle(t, FALSE, <<>>, FALSE)
    /\ UNCHANGED <<isMV3, calls, granted, now, blockedSites, session, unlockedSites, alarms,
                   dynamicRules, tabs, relocker>>

----------------------------------------------------------------------------
(* navigation: the onBeforeRequest listener of the live-intercept backend and
   checkAndBlockUrl behind the webNavigation and tabs.onUpdated events *)

InternalUrl ==
    [valid |-> TRUE, scheme |-> "chrome", hostname |-> <<"n">>, pathname |-> <<>>,
     query |-> <<>>]

RequestTypes == {"main_frame", "sub_frame"}

(* variant: the listener stops at the first site whose rules match the url *)
FirstMatchingIfLocked(url) ==
    LET hits == {i \in 1..Len(cachedSites) :
                    cachedSites[i].enabled /\ urlMatchesSiteRules(url, cachedSites[i])}
        first == cachedSites[CHOOSE i \in hits : \A j \in hits : i <= j]
    IN  IF hits = {} THEN <<>>
        ELSE IF /\ unlockedSites[first.id] # NoState
                /\ unlockedSites[first.id].expiresAt > now
             THEN <<>>
             ELSE <<first>>

(* the listener's loop over cachedSites: the first enabled site without unexpired
   record whose rules match the url *)
BlockingSite(url) ==
    LET hits == {i \in 1..Len(cachedSites) :
                    /\ cachedSites[i].enabled
                    /\ ~(/\ unlockedSites[cachedSites[i].id] # NoState
                         /\ unlockedSites[cachedSites[i].id].expiresAt > now)
                    /\ urlMatchesSiteRules(url, cachedSites[i])}
    IN  IF hits = {} THEN <<>>
        ELSE <<cachedSites[CHOOSE i \in hits : \A j \in hits : i <= j]>>

(* the listener's answer to a request: the site it cancels for, if any *)
ListenerVerdict(url, type) ==
    IF isMV3 \/ type # "main_frame" \/ isInternalUrl(url) THEN <<>>
    ELSE BlockingSite(url)

(* findMatchingBlockedSite: sites.find(site => urlMatchesSiteRules(url, site)) *)
FindMatchingBlockedSite(sites, url) ==
    LET hits == {i \in 1..Len(sites) : urlMatchesSiteRules(url, sites[i])}
    IN  IF hits = {} THEN <<>>
        ELSE <<sites[CHOOSE i \in hits : \A j \in hits : i <= j]>>

(* a request for url starts in tab id. The live-intercept listener answers at
   once: it cancels a top-level load of a locked site and issues tabs.update to
   the challenge page. A top-level load that is not cancelled commits, and one of
   the navigation events calls checkAndBlockUrl, which returns at once for an
   internal url. *)
Navigate(t, id, url, type) ==
    /\ FreeSlot(t)
    /\ tabs[id] # NoUrl
    /\ LET verdict == ListenerVerdict(url, type)
       IN  /\ lastDone' = [NoCall EXCEPT !.op = "request", !.url = url, !.tab = id,
                                         !.type = type, !.cancel = verdict # <<>>,
                                         !.siteId = IF verdict = <<>> THEN ""
                                                    ELSE verdict[1].id]
           /\ IF verdict # <<>>
              THEN /\ tasks' = [tasks EXCEPT ![t] =
                                   [NewTask("abort", "rd_update", verdict[1].id)
                                       EXCEPT !.url = url, !.todo = <<id>>]]
                   /\ tabs' = tabs
              ELSE IF type # "main_frame"
                   THEN tasks' = tasks /\ tabs' = tabs
                   ELSE /\ tabs' = [tabs EXCEPT ![id] = url]
                        /\ tasks' = IF isInternalUrl(url) THEN tasks
                                    ELSE [tasks EXCEPT ![t] =
                                             [NewTask("hook", "h_sites", "")
                                                 EXCEPT !.url = url, !.todo = <<id>>]]
    /\ Count
    /\ UNCHANGED <<isMV3, granted, now, blockedSites, session, unlockedSites, cachedSites,
                   alarms, dynamicRules, relocker>>

(* checkAndBlockUrl: await findMatchingBlockedSite(url); on the live-intercept
   backend isSiteUnlocked has no awaited call and runs in the same piece *)
HookGetSites(t) ==
    /\ At(t, "h_sites")
    /\ tasks[t].op = "hook"
    /\ LET site == FindMatchingBlockedSite(blockedSites, tasks[t].url)
       IN  IF site = <<>>
           THEN Settle(t, FALSE, <<>>, FALSE) /\ UNCHANGED unlockedSites
           ELSE IF isMV3
           THEN /\ tasks' = [tasks EXCEPT ![t].siteId = site[1].id, ![t].pc = "h_get"]
                /\ Forget
                /\ UNCHANGED unlockedSites
           ELSE LET state == unlockedSites[site[1].id]
                IN  IF state = NoState
                    THEN /\ tasks' = [tasks EXCEPT ![t].siteId = site[1].id,
                                                   ![t].pc = "rd_update"]
                         /\ Forget
                         /\ UNCHANGED unlockedSites
                    ELSE IF Expired(state, now)
                    THEN /\ unlockedSites' = [unlockedSites EXCEPT ![site[1].id] = NoState]
                         /\ tasks' = [tasks EXCEPT ![t].siteId = site[1].id,
                                                   ![t].pc = "rd_update"]
                         /\ Forget
                    ELSE /\ SettleWith(t, state.expiresAt, TRUE, <<>>, FALSE)
                         /\ UNCHANGED unlockedSites
    /\ UNCHANGED <<isMV3, calls, granted, now, blockedSites, session, cachedSites, alarms,
                   dynamicRules, tabs, relocker>>

(* dnr.isSiteUnlocked inside checkAndBlockUrl: await storage.session.get *)
HookUnlockGet(t) ==
    /\ At(t, "h_get")
    /\ LET state == session[tasks[t].siteId]
       IN  IF state = NoState THEN Goto(t, "rd_update") /\ Forget
           ELSE IF Expired(state, now) THEN Goto(t, "h_remove") /\ Forget
           ELSE SettleWith(t, state.expiresAt, TRUE, <<>>, FALSE)
    /\ UNCHANGED <<isMV3, calls, granted, now, blockedSites, session, unlockedSites, cachedSites,
                   alarms, dynamicRules, tabs, relocker>>

(* await storage.session.remove of the expired record *)
HookUnlockRemove(t) ==
    /\ At(t, "h_remove")
    /\ session' = [session EXCEPT ![tasks[t].siteId] = NoState]
    /\ Goto(t, "rd_update")
    /\ UNCHANGED <<isMV3, calls, granted, now, blockedSites, unlockedSites, cachedSites, alarms,
                   dynamicRules, tabs, relocker>>
    /\ Forget

----------------------------------------------------------------------------
(* startup: initializeDnr / initializeWebRequest *)

(* variant: startup always initializes the live-intercept backend *)
InitTaskLiveIntercept == NewTask("init", "c_get", "")

InitTask == NewTask("init", IF isMV3 THEN "i_get" ELSE "c_get", "")

InitGet(t) ==
    /\ At(t, "i_get")
    /\ LET expired == IdSeq({k \in SiteIds : session[k] # NoState
                                             /\ session[k].expiresAt <= now})
       IN  tasks' = [tasks EXCEPT ![t].expired = expired,
                                  ![t].found = expired # <<>>,
                                  ![t].pc = IF expired = <<>> THEN "s_sites"
                                            ELSE "i_remove"]
    /\ UNCHANGED <<isMV3, calls, granted, now, blockedSites, session, unlockedSites, cachedSites,
                   alarms, dynamicRules, tabs, relocker>>
    /\ Forget

InitRemove(t) ==
    /\ At(t, "i_remove")
    /\ session' = [session EXCEPT ![Head(tasks[t].expired)] = NoState]
    /\ Goto(t, "i_clear")
    /\ UNCHANGED <<isMV3, calls, granted, now, blockedSites, unlockedSites, cachedSites, alarms,
                   dynamicRules, tabs, relocker>>
    /\ Forget

(* variant: the start purges an expired record and leaves its alarm armed *)
InitKeepAlarm(t) ==
    /\ At(t, "i_clear")
    /\ tasks' = [tasks EXCEPT ![t].expired = Tail(tasks[t].expired),
                              ![t].pc = IF Len(tasks[t].expired) = 1 THEN "s_sites"
                                        ELSE "i_remove"]
    /\ UNCHANGED <<isMV3, calls, granted, now, blockedSites, session, unlockedSites, cachedSites,
                   alarms, dynamicRules, tabs, relocker>>
    /\ Forget

InitClear(t) ==
    /\ At(t, "i_clear")
    /\ alarms' = [alarms EXCEPT ![Head(tasks[t].expired)] = NoAlarm]
    /\ tasks' = [tasks EXCEPT ![t].expired = Tail(tasks[t].expired),
                              ![t].pc = IF Len(tasks[t].expired) = 1 THEN "s_sites"
                                        ELSE "i_remove"]
    /\ UNCHANGED <<isMV3, calls, granted, now, blockedSites, session, unlockedSites, cachedSites,
                   dynamicRules, tabs, relocker>>
    /\ Forget

(* variant: the unlock ledger of the live-intercept backend outlives the process *)
RestartKeepsLedger ==
    /\ AllIdle
    /\ tasks' = [tasks EXCEPT ![1] = InitTask]
    /\ cachedSites' = <<>>
    /\ Count
    /\ UNCHANGED <<isMV3, now, blockedSites, session, unlockedSites, alarms, dynamicRules,
                   tabs, relocker, granted>>
    /\ Forget

(* the background process stops while idle and starts again: what lives in the
   browser stays, what lives in the process memory is lost *)
Restart ==
    /\ AllIdle
    /\ tasks' = [tasks EXCEPT ![1] = InitTask]
    /\ unlockedSites' = [s \in SiteIds |-> NoState]
    /\ cachedSites' = <<>>
    /\ Count
    /\ granted' = IF isMV3 THEN granted ELSE [s \in SiteIds |-> -1]
    /\ UNCHANGED <<isMV3, now, blockedSites, session, alarms, dynamicRules, tabs,
                   relocker>>
    /\ Forget

----------------------------------------------------------------------------
(* time *)

PendingTimes ==
    {alarms[s] : s \in SiteIds} \cup {session[s].expiresAt : s \in SiteIds}
        \cup {unlockedSites[s].expiresAt : s \in SiteIds}

(* minute by minute up to MaxClock, then straight to the next scheduled instant *)
Tick ==
    /\ IF now < MaxClock THEN now' = now + 1
       ELSE /\ \E p \in PendingTimes : p > now
            /\ now' = CHOOSE p \in PendingTimes :
                          p > now /\ \A q \in PendingTimes : q > now => p <= q
    /\ UNCHANGED <<isMV3, calls, granted, blockedSites, session, unlockedSites, cachedSites,
                   alarms, dynamicRules, tabs, tasks, relocker>>
    /\ Forget

----------------------------------------------------------------------------

Init ==
    /\ isMV3 \in BOOLEAN
    /\ now = 0
    /\ blockedSites = <<SiteA, SiteB>>
    /\ session = [s \in SiteIds |-> NoState]
    /\ unlockedSites = [s \in SiteIds |-> NoState]
    /\ cachedSites = <<>>
    /\ alarms = [s \in SiteIds |-> NoAlarm]
    /\ dynamicRules = {}
    /\ tabs = [id \in TabIds |-> UrlA]
    /\ tasks = [t \in Tasks |-> IF t = 1 THEN InitTask ELSE IdleTask]
    /\ lastDone = NoCall
    /\ relocker = [s \in SiteIds |-> "none"]
    /\ calls = 0
    /\ granted = [s \in SiteIds |-> -1]

(* the next awaited call of a handler in flight returns *)
Step(t) ==
    \/ GrantSet(t)
    \/ GrantCreateAlarm(t)
    \/ SyncGetSites(t)
    \/ SyncGetRules(t)
    \/ SyncGetSession(t)
    \/ SyncUpdate(t)
    \/ RevokeRemove(t)
    \/ RevokeClear(t)
    \/ TabsGetSites(t)
    \/ TabsQuery(t)
    \/ RedirectGet(t)
    \/ RedirectUpdate(t)
    \/ UnlockGet(t)
    \/ UnlockRemove(t)
    \/ CacheGet(t)
    \/ CacheAssign(t)
    \/ InitGet(t)
    \/ InitRemove(t)
    \/ InitClear(t)

(* a message, a store change or a restart arrives *)
Call(t, durations) ==
    \/ \E siteId \in SiteIds, d \in durations : GrantAccess(t, siteId, d)
    \/ \E siteId \in SiteIds : RevokeAccess(t, siteId)
    \/ \E siteId \in SiteIds : IsSiteUnlocked(t, siteId)
    \/ \E i \in 1..Len(blockedSites) : ToggleSite(t, i)
    \/ Restart

Next ==
    \/ \E t \in Tasks : Step(t)
    \/ \E t \in Tasks : calls < MaxCalls /\ Call(t, Durations)
    \/ \E t \in Tasks, siteId \in SiteIds : AlarmFire(t, siteId)
    \/ Tick

Spec == Init /\ [][Next]_vars

----------------------------------------------------------------------------
(* One call at a time: a call settles before the next one arrives and before the
   clock moves, and the tabs and durations are drawn from wider sets *)

SeqDurations == {Null, 0, 1, 2}

InitSeq ==
    /\ isMV3 \in BOOLEAN
    /\ now = 0
    /\ blockedSites = <<SiteA, SiteB>>
    /\ session = [s \in SiteIds |-> NoState]
    /\ unlockedSites = [s \in SiteIds |-> NoState]
    /\ cachedSites = <<>>
    /\ alarms = [s \in SiteIds |-> NoAlarm]
    /\ dynamicRules = {}
    /\ tabs \in [TabIds -> Urls]
    /\ tasks = [t \in Tasks |-> IF t = 1 THEN InitTask ELSE IdleTask]
    /\ lastDone = NoCall
    /\ relocker = [s \in SiteIds |-> "none"]
    /\ calls = 0
    /\ granted = [s \in SiteIds |-> -1]

NextSeq ==
    \/ \E t \in Tasks : Step(t)
    \/ \E t \in Tasks : AllIdle /\ calls < MaxSeqCalls /\ Call(t, SeqDurations)
    \/ \E t \in Tasks, siteId \in SiteIds : AllIdle /\ AlarmFire(t, siteId)
    \/ AllIdle /\ Tick

SpecSeq == InitSeq /\ [][NextSeq]_vars

----------------------------------------------------------------------------
(* One call at a time over a store that holds site a only: b is an id the store
   does not know, as after the user has deleted that site *)

InitOneSite ==
    /\ isMV3 \in BOOLEAN
    /\ now = 0
    /\ blockedSites = <<SiteA>>
    /\ session = [s \in SiteIds |-> NoState]
    /\ unlockedSites = [s \in SiteIds |-> NoState]
    /\ cachedSites = <<>>
    /\ alarms = [s \in SiteIds |-> NoAlarm]
    /\ dynamicRules = {}
    /\ tabs \in [TabIds -> Urls \cup {InternalUrl}]
    /\ tasks = [t \in Tasks |-> IF t = 1 THEN InitTask ELSE IdleTask]
    /\ lastDone = NoCall
    /\ relocker = [s \in SiteIds |-> "none"]
    /\ calls = 0
    /\ granted = [s \in SiteIds |-> -1]

SpecOneSite == InitOneSite /\ [][NextSeq]_vars

----------------------------------------------------------------------------
(* The pattern matcher at work: the store holds one site whose rule list is drawn
   from a pool, the tab is on a URL drawn from a pool, the background script has
   started, and revokeAccess lists the tab if and only if urlMatchesSiteRules says
   that the site blocks its URL *)

MaxRules == 3

MaxMatchCalls == 1

MatchDomain == <<"a", ".", "c">>

MatchHosts ==
    {MatchDomain,
     WwwPrefix \o MatchDomain,
     <<"x">> \o MatchDomain,
     <<"s", ".">> \o MatchDomain,
     <<"t", ".", "s", ".">> \o MatchDomain,
     WwwPrefix \o WwwPrefix \o MatchDomain}

MatchPaths ==
    {<<"/">>, <<"/", "o", "k">>, <<"/", "o", "k", "/", "1">>, <<"/", "o", "k", "a", "y">>,
     <<"/", "o">>}

MatchUrls == {Web(h, p) : h \in MatchHosts, p \in MatchPaths}

(* the patterns of the rule lists: a host, a wildcard, a path *)
ListPatterns ==
    {MatchDomain, WildcardPrefix \o MatchDomain, MatchDomain \o <<"/", "o", "k">>}

(* the patterns tried one at a time as the only deny rule of the site *)
SinglePatterns ==
    {MatchDomain,
     WwwPrefix \o MatchDomain,
     <<"A", ".", "C">>,
     <<" ">> \o MatchDomain \o <<" ">>,
     HttpsPrefix \o MatchDomain,
     HttpPrefix \o WwwPrefix \o MatchDomain,
     <<"H", "T", "T", "P", "S", ":", "/", "/", "W", "W", "W", ".">> \o MatchDomain,
     <<"s", ".">> \o MatchDomain,
     WwwPrefix \o WwwPrefix \o MatchDomain,
     <<"c">>,
     WildcardPrefix \o MatchDomain,
     WildcardPrefix \o <<"s", ".">> \o MatchDomain,
     HttpsPrefix \o WildcardPrefix \o MatchDomain,
     WildcardPrefix \o <<"c">>,
     MatchDomain \o <<"/", "o", "k">>,
     MatchDomain \o <<"/", "o", "k", "/">>,
     MatchDomain \o <<"/", "O", "K">>,
     MatchDomain \o <<"/">>,
     HttpsPrefix \o WwwPrefix \o MatchDomain \o <<"/", "o", "k">>,
     WildcardPrefix \o MatchDomain \o <<"/", "o", "k", "/">>}

MatchRuleLists ==
    UNION {[1..n -> {Rule(p, allow) : p \in ListPatterns, allow \in BOOLEAN}] :
             n \in 0..MaxRules}
        \cup {<<Rule(p, FALSE)>> : p \in SinglePatterns}

MatchSites == {[id |-> "a", enabled |-> e, rules |-> r] :
                 e \in BOOLEAN, r \in MatchRuleLists}

InitMatch ==
    /\ isMV3 \in BOOLEAN
    /\ now = 0
    /\ blockedSites \in {<<site>> : site \in MatchSites}
    /\ session = [s \in SiteIds |-> NoState]
    /\ unlockedSites = [s \in SiteIds |-> NoState]
    /\ cachedSites = IF isMV3 THEN <<>> ELSE blockedSites
    /\ alarms = [s \in SiteIds |-> NoAlarm]
    /\ dynamicRules = IF isMV3 THEN SeqRange(newRulesOf(blockedSites, session, now))
                      ELSE {}
    /\ tabs \in [TabIds -> MatchUrls]
    /\ tasks = [t \in Tasks |-> IdleTask]
    /\ lastDone = NoCall
    /\ relocker = [s \in SiteIds |-> "none"]
    /\ calls = 0
    /\ granted = [s \in SiteIds |-> -1]

NextMatch ==
    \/ \E t \in Tasks : AllIdle /\ calls < MaxMatchCalls /\ RevokeAccess(t, "a")
    \/ \E t \in Tasks : RevokeRemove(t)
    \/ \E t \in Tasks : RevokeClear(t)
    \/ \E t \in Tasks : SyncGetSites(t)
    \/ \E t \in Tasks : SyncGetRules(t)
    \/ \E t \in Tasks : SyncGetSession(t)
    \/ \E t \in Tasks : SyncUpdate(t)
    \/ \E t \in Tasks : TabsGetSites(t)
    \/ \E t \in Tasks : TabsQuery(t)

SpecMatch == InitMatch /\ [][NextMatch]_vars

----------------------------------------------------------------------------
(* Navigation: the extension is up, two sites whose patterns overlap are stored,
   and the user loads pages while grants and relocks are in flight *)

MaxNavCalls == 2

SiteWide == [id |-> "b", enabled |-> TRUE, rules |-> <<Rule(<<"*", ".", "c">>, FALSE)>>]

NavUrls == {UrlA, UrlAOk, UrlB, InternalUrl}

InitNav ==
    /\ isMV3 \in BOOLEAN
    /\ now = 0
    /\ blockedSites \in {<<[SiteA EXCEPT !.enabled = e], SiteWide>> : e \in BOOLEAN}
    /\ session = [s \in SiteIds |-> NoState]
    /\ unlockedSites = [s \in SiteIds |-> NoState]
    /\ cachedSites = IF isMV3 THEN <<>> ELSE blockedSites
    /\ alarms = [s \in SiteIds |-> NoAlarm]
    /\ dynamicRules = IF isMV3 THEN SeqRange(newRulesOf(blockedSites, session, now))
                      ELSE {}
    /\ tabs \in [TabIds -> {UrlAOk, InternalUrl}]
    /\ tasks = [t \in Tasks |-> IdleTask]
    /\ lastDone = NoCall
    /\ relocker = [s \in SiteIds |-> "none"]
    /\ calls = 0
    /\ granted = [s \in SiteIds |-> -1]

NextNav ==
    \/ \E t \in Tasks, id \in TabIds, url \in NavUrls, type \in RequestTypes :
           calls < MaxNavCalls /\ Navigate(t, id, url, type)
    \/ \E t \in Tasks, siteId \in SiteIds :
           calls < MaxNavCalls /\ GrantAccess(t, siteId, 1)
    \/ \E t \in Tasks, siteId \in SiteIds : AlarmFire(t, siteId)
    \/ \E t \in Tasks : GrantSet(t)
    \/ \E t \in Tasks : GrantCreateAlarm(t)
    \/ \E t \in Tasks : SyncGetSites(t)
    \/ \E t \in Tasks : SyncGetRules(t)
    \/ \E t \in Tasks : SyncGetSession(t)
    \/ \E t \in Tasks : SyncUpdate(t)
    \/ \E t \in Tasks : RevokeRemove(t)
    \/ \E t \in Tasks : RevokeClear(t)
    \/ \E t \in Tasks : TabsGetSites(t)
    \/ \E t \in Tasks : TabsQuery(t)
    \/ \E t \in Tasks : RedirectGet(t)
    \/ \E t \in Tasks : RedirectUpdate(t)
    \/ \E t \in Tasks : HookGetSites(t)
    \/ \E t \in Tasks : HookUnlockGet(t)
    \/ \E t \in Tasks : HookUnlockRemove(t)
    \/ (\E p \in PendingTimes : p > now) /\ Tick

SpecNav == InitNav /\ [][NextNav]_vars

----------------------------------------------------------------------------
(* The rule compiler at work: the store holds one or two sites whose rule lists
   are drawn from a pool, the background script has started on the rule-table
   backend, and sites are toggled, each toggle followed by its resync *)

MaxCompileCalls == 2

CompileRuleLists ==
    LET p1 == <<"a", ".", "c">>
        p2 == <<"*", ".", "b", ".", "c">>
        p3 == <<"a", ".", "c", "/", "o", "k">>
    IN  {<<>>,
         <<Rule(p1, FALSE)>>,
         <<Rule(p1, FALSE), Rule(p2, FALSE)>>,
         <<Rule(p3, TRUE), Rule(p1, FALSE)>>,
         <<Rule(p1, FALSE), Rule(p3, TRUE), Rule(p2, FALSE)>>,
         <<Rule(p1, FALSE), Rule(p2, FALSE), Rule(p1, FALSE)>>}

CompileSites(id) ==
    {[id |-> id, enabled |-> e, rules |-> r] : e \in BOOLEAN, r \in CompileRuleLists}

InitCompile ==
    /\ isMV3 = TRUE
    /\ now = 0
    /\ blockedSites \in {<<sa>> : sa \in CompileSites("a")}
                           \cup {<<sa, sb>> : sa \in CompileSites("a"), sb \in CompileSites("b")}
                           \cup {<<sb, sa>> : sa \in CompileSites("a"), sb \in CompileSites("b")}
    /\ session = [s \in SiteIds |-> NoState]
    /\ unlockedSites = [s \in SiteIds |-> NoState]
    /\ cachedSites = <<>>
    /\ alarms = [s \in SiteIds |-> NoAlarm]
    /\ dynamicRules = SeqRange(newRulesOf(blockedSites, session, now))
    /\ tabs = [id \in TabIds |-> UrlA]
    /\ tasks = [t \in Tasks |-> IdleTask]
    /\ lastDone = NoCall
    /\ relocker = [s \in SiteIds |-> "none"]
    /\ calls = 0
    /\ granted = [s \in SiteIds |-> -1]

NextCompile ==
    \/ \E t \in Tasks, i \in 1..Len(blockedSites) :
           AllIdle /\ calls < MaxCompileCalls /\ ToggleSite(t, i)
    \/ \E t \in Tasks : SyncGetSites(t)
    \/ \E t \in Tasks : SyncGetRules(t)
    \/ \E t \in Tasks : SyncGetSession(t)
    \/ \E t \in Tasks : SyncUpdate(t)

SpecCompile == InitCompile /\ [][NextCompile]_vars

----------------------------------------------------------------------------
(* The slots of a site: the store holds a site with about MAX_RULES_PER_SITE
   deny patterns, alone or followed by a second site, the background script
   starts on the rule-table backend and sites are toggled *)

MaxExtraPatterns == 1

MaxSlotCalls == 2

ManyPatterns(n) == [j \in 1..n |-> Rule(<<"a", ".", "c">>, FALSE)]

SlotLists ==
    LET big == {[id |-> "a", enabled |-> e, rules |-> ManyPatterns(n)] :
                  e \in BOOLEAN,
                  n \in (MAX_RULES_PER_SITE - 1)..(MAX_RULES_PER_SITE + MaxExtraPatterns)}
        next == {[SiteB EXCEPT !.enabled = e] : e \in BOOLEAN}
                    \cup {[id |-> "b", enabled |-> TRUE, rules |-> <<>>]}
    IN  {<<sa>> : sa \in big} \cup {<<sa, sb>> : sa \in big, sb \in next}

InitSlots ==
    /\ isMV3 = TRUE
    /\ now = 0
    /\ blockedSites \in SlotLists
    /\ session = [s \in SiteIds |-> NoState]
    /\ unlockedSites = [s \in SiteIds |-> NoState]
    /\ cachedSites = <<>>
    /\ alarms = [s \in SiteIds |-> NoAlarm]
    /\ dynamicRules = {}
    /\ tabs = [id \in TabIds |-> UrlA]
    /\ tasks = [t \in Tasks |-> IF t = 1 THEN InitTask ELSE IdleTask]
    /\ lastDone = NoCall
    /\ relocker = [s \in SiteIds |-> "none"]
    /\ calls = 0
    /\ granted = [s \in SiteIds |-> -1]

NextSlots ==
    \/ \E t \in Tasks, i \in 1..Len(blockedSites) :
           AllIdle /\ calls < MaxSlotCalls /\ ToggleSite(t, i)
    \/ \E t \in Tasks : InitGet(t)
    \/ \E t \in Tasks : SyncGetSites(t)
    \/ \E t \in Tasks : SyncGetRules(t)
    \/ \E t \in Tasks : SyncGetSession(t)
    \/ \E t \in Tasks : SyncUpdate(t)

SpecSlots == InitSlots /\ [][NextSlots]_vars

----------------------------------------------------------------------------
(* The relock batch: site a has been unlocked for a minute, two tabs are open,
   the alarm fires and the listener redirects the tabs revokeAccess returned
   while the user closes tabs *)

MaxBatchCalls == 2

BatchTabIds == {1, 2}

InitBatch ==
    /\ isMV3 \in BOOLEAN
    /\ now = 0
    /\ blockedSites = <<SiteA, SiteB>>
    /\ session = [s \in SiteIds |-> IF isMV3 /\ s = "a"
                                     THEN [siteId |-> "a", expiresAt |-> 1] ELSE NoState]
    /\ unlockedSites = [s \in SiteIds |-> IF ~isMV3 /\ s = "a"
                                           THEN [siteId |-> "a", expiresAt |-> 1]
                                           ELSE NoState]
    /\ cachedSites = IF isMV3 THEN <<>> ELSE blockedSites
    /\ alarms = [s \in SiteIds |-> IF s = "a" THEN 1 ELSE NoAlarm]
    /\ dynamicRules = IF isMV3 THEN SeqRange(newRulesOf(blockedSites, session, now))
                      ELSE {}
    /\ tabs \in [BatchTabIds -> {UrlA, UrlB}]
    /\ tasks = [t \in Tasks |-> IdleTask]
    /\ lastDone = NoCall
    /\ relocker = [s \in SiteIds |-> "none"]
    /\ calls = 0
    /\ granted = [s \in SiteIds |-> IF s = "a" THEN 1 ELSE -1]

NextBatch ==
    \/ \E id \in BatchTabIds : calls < MaxBatchCalls /\ CloseTab(id)
    \/ \E t \in Tasks, siteId \in SiteIds : AlarmFire(t, siteId)
    \/ \E t \in Tasks : RevokeRemove(t)
    \/ \E t \in Tasks : RevokeClear(t)
    \/ \E t \in Tasks : SyncGetSites(t)
    \/ \E t \in Tasks : SyncGetRules(t)
    \/ \E t \in Tasks : SyncGetSession(t)
    \/ \E t \in Tasks : SyncUpdate(t)
    \/ \E t \in Tasks : TabsGetSites(t)
    \/ \E t \in Tasks : TabsQuery(t)
    \/ \E t \in Tasks : RedirectGet(t)
    \/ \E t \in Tasks : RedirectUpdate(t)
    \/ (\E p \in PendingTimes : p > now) /\ Tick

SpecBatch == InitBatch /\ [][NextBatch]_vars

----------------------------------------------------------------------------
(* Viewers: blocked pages of site a ask for its unlock state, through
   CHECK_UNLOCK_STATE (peek) and through isSiteUnlocked, while one of them
   unlocks the site *)

MaxPeekCalls == 3

InitPeek ==
    /\ isMV3 \in BOOLEAN
    /\ now = 0
    /\ blockedSites = <<SiteA, SiteB>>
    /\ session = [s \in SiteIds |-> NoState]
    /\ unlockedSites = [s \in SiteIds |-> NoState]
    /\ cachedSites = IF isMV3 THEN <<>> ELSE blockedSites
    /\ alarms = [s \in SiteIds |-> NoAlarm]
    /\ dynamicRules = IF isMV3 THEN SeqRange(newRulesOf(blockedSites, session, now))
                      ELSE {}
    /\ tabs = [id \in TabIds |-> UrlA]
    /\ tasks = [t \in Tasks |-> IdleTask]
    /\ lastDone = NoCall
    /\ relocker = [s \in SiteIds |-> "none"]
    /\ calls = 0
    /\ granted = [s \in SiteIds |-> -1]

NextPeek ==
    \/ \E t \in Tasks : calls < MaxPeekCalls /\ GrantAccess(t, "a", 1)
    \/ \E t \in Tasks : calls < MaxPeekCalls /\ GetUnlockState(t, "a")
    \/ \E t \in Tasks : calls < MaxPeekCalls /\ IsSiteUnlocked(t, "a")
    \/ \E t \in Tasks : GrantSet(t)
    \/ \E t \in Tasks : GrantCreateAlarm(t)
    \/ \E t \in Tasks : SyncGetSites(t)
    \/ \E t \in Tasks : SyncGetRules(t)
    \/ \E t \in Tasks : SyncGetSession(t)
    \/ \E t \in Tasks : SyncUpdate(t)
    \/ \E t \in Tasks : UnlockGet(t)
    \/ \E t \in Tasks : UnlockRemove(t)
    \/ (\E p \in PendingTimes : p > now) /\ Tick

SpecPeek == InitPeek /\ [][NextPeek]_vars

----------------------------------------------------------------------------
(* Site Rule Store mutations of the popup and the options page: every one reads
   the whole list (getBlockedSites) and writes the whole list back
   (saveBlockedSites / storage.local.set), two awaited calls *)

StoreIds == {"a", "b", "c"}

SiteNames == {1, 2}

MaxStoreCalls == 3

RulesOfName(name) == IF name = 1 THEN SiteA.rules ELSE SiteB.rules

StoredSite(id, createdAt, name, enabled) ==
    [id |-> id, createdAt |-> createdAt, name |-> name, rules |-> RulesOfName(name),
     enabled |-> enabled]

(* the form's fields, as handleSaveSite collects them: no id, no createdAt *)
siteData(name) == [name |-> name, rules |-> RulesOfName(name), enabled |-> TRUE]

(* { ...site, ...updates } *)
Spread(site, updates) ==
    [f \in DOMAIN site \cup DOMAIN updates |->
        IF f \in DOMAIN updates THEN updates[f] ELSE site[f]]

(* sites.findIndex((s) => s.id === id), 0 for -1 *)
findIndex(sites, id) ==
    IF \E i \in 1..Len(sites) : sites[i].id = id
    THEN CHOOSE i \in 1..Len(sites) :
             sites[i].id = id /\ \A j \in 1..(i - 1) : sites[j].id # id
    ELSE 0

UpdatedListFirst(sites, id, updates) ==
    IF findIndex(sites, id) = 0 THEN sites
    ELSE [sites EXCEPT ![1] = Spread(sites[1], updates)]

UpdatedList(sites, id, updates) ==
    IF findIndex(sites, id) = 0 THEN sites
    ELSE [sites EXCEPT ![findIndex(sites, id)] = Spread(sites[findIndex(sites, id)], updates)]

AddedList(sites, site, id, createdAt) ==
    Append(sites, Spread(site, [id |-> id, createdAt |-> createdAt]))

DeletedList(sites, id) == SelectSeq(sites, LAMBDA s : s.id # id)

UpdateOps == {"save", "toggle"}

StoreOps == UpdateOps \cup {"add", "delete"}

(* the updates an update call was given: the form, or { enabled } *)
Updates(task) ==
    IF task.op = "toggle" THEN [enabled |-> task.found] ELSE siteData(task.arg)

(* the list a mutation writes, from the list it was handed *)
Mutated(task, sites) ==
    CASE task.op \in UpdateOps -> UpdatedList(sites, task.siteId, Updates(task))
      [] task.op = "add" -> AddedList(sites, siteData(task.arg), task.siteId, task.when)
      [] task.op = "delete" -> DeletedList(sites, task.siteId)

StoreFrame ==
    UNCHANGED <<isMV3, granted, now, session, unlockedSites, cachedSites, alarms,
                dynamicRules, tabs, relocker>>

(* handleSaveSite: the form is saved over the site being edited, or as a new
   site when editing is the empty string *)
HandleSaveSite(t, editing, name) ==
    /\ FreeSlot(t)
    /\ tasks' = [tasks EXCEPT ![t] =
                    [NewTask(IF editing = "" THEN "add" ELSE "save", "st_get", editing)
                        EXCEPT !.arg = name]]
    /\ Count
    /\ Forget
    /\ UNCHANGED blockedSites
    /\ StoreFrame

HandleToggleSite(t, id, enabled) ==
    /\ FreeSlot(t)
    /\ tasks' = [tasks EXCEPT ![t] =
                    [NewTask("toggle", "st_get", id) EXCEPT !.found = enabled]]
    /\ Count
    /\ Forget
    /\ UNCHANGED blockedSites
    /\ StoreFrame

HandleDeleteSite(t, id) ==
    /\ FreeSlot(t)
    /\ tasks' = [tasks EXCEPT ![t] = NewTask("delete", "st_get", id)]
    /\ Count
    /\ Forget
    /\ UNCHANGED blockedSites
    /\ StoreFrame

(* ids Math.random has not handed out: not stored and not held by a call *)
FreshIds ==
    {id \in StoreIds :
        /\ \A i \in 1..Len(blockedSites) : blockedSites[i].id # id
        /\ \A t \in Tasks :
              /\ tasks[t].siteId # id \/ tasks[t].op # "add"
              /\ \A i \in 1..Len(tasks[t].sites) : tasks[t].sites[i].id # id}

(* getBlockedSites returns: an update of an id the list does not hold ends
   here, an add draws its id and takes the clock as createdAt, and the call
   goes on to write *)
StoreGet(t) ==
    /\ At(t, "st_get")
    /\ tasks[t].op \in StoreOps
    /\ IF tasks[t].op \in UpdateOps /\ findIndex(blockedSites, tasks[t].siteId) = 0
       THEN Settle(t, FALSE, <<>>, FALSE)
       ELSE /\ \E id \in IF tasks[t].op = "add" THEN FreshIds ELSE {tasks[t].siteId} :
                 tasks' = [tasks EXCEPT ![t].sites = blockedSites,
                                        ![t].siteId = id,
                                        ![t].when = IF tasks[t].op = "add" THEN now ELSE -1,
                                        ![t].pc = "st_set"]
            /\ Forget
    /\ UNCHANGED <<blockedSites, calls>>
    /\ StoreFrame

(* storage.local.set lands: the list the call read, with its change *)
StoreSet(t) ==
    /\ At(t, "st_set")
    /\ blockedSites' = Mutated(tasks[t], tasks[t].sites)
    /\ Settle(t, FALSE, <<>>, FALSE)
    /\ UNCHANGED calls
    /\ StoreFrame

InitStore ==
    /\ isMV3 = TRUE
    /\ now = 0
    /\ blockedSites \in {<<>>, <<StoredSite("a", 0, 1, TRUE)>>,
                         <<StoredSite("a", 0, 1, TRUE), StoredSite("b", 0, 2, FALSE)>>}
    /\ session = [s \in SiteIds |-> NoState]
    /\ unlockedSites = [s \in SiteIds |-> NoState]
    /\ cachedSites = <<>>
    /\ alarms = [s \in SiteIds |-> NoAlarm]
    /\ dynamicRules = {}
    /\ tabs = [id \in TabIds |-> UrlA]
    /\ tasks = [t \in Tasks |-> IdleTask]
    /\ lastDone = NoCall
    /\ relocker = [s \in SiteIds |-> "none"]
    /\ calls = 0
    /\ granted = [s \in SiteIds |-> -1]

NextStore ==
    \/ \E t \in Tasks, editing \in StoreIds \cup {""}, name \in SiteNames :
          calls < MaxStoreCalls /\ HandleSaveSite(t, editing, name)
    \/ \E t \in Tasks, id \in StoreIds, enabled \in BOOLEAN :
          calls < MaxStoreCalls /\ HandleToggleSite(t, id, enabled)
    \/ \E t \in Tasks, id \in StoreIds : calls < MaxStoreCalls /\ HandleDeleteSite(t, id)
    \/ \E t \in Tasks : StoreGet(t)
    \/ \E t \in Tasks : StoreSet(t)
    \/ now < MaxClock /\ Tick

SpecStore == InitStore /\ [][NextStore]_vars

----------------------------------------------------------------------------
(* The unlock ledger alone: grant, revoke, timer fire, isUnlocked and peek, one
   call at a time, on either backend, without restart *)

MaxLedgerCalls == 3

NextLedger ==
    \/ \E t \in Tasks, siteId \in SiteIds, d \in SeqDurations :
           AllIdle /\ calls < MaxLedgerCalls /\ GrantAccess(t, siteId, d)
    \/ \E t \in Tasks, siteId \in SiteIds :
           AllIdle /\ calls < MaxLedgerCalls /\ RevokeAccess(t, siteId)
    \/ \E t \in Tasks, siteId \in SiteIds :
           AllIdle /\ calls < MaxLedgerCalls /\ IsSiteUnlocked(t, siteId)
    \/ \E t \in Tasks, siteId \in SiteIds :
           AllIdle /\ calls < MaxLedgerCalls /\ GetUnlockState(t, siteId)
    \/ \E t \in Tasks, siteId \in SiteIds : AllIdle /\ AlarmFire(t, siteId)
    \/ \E t \in Tasks : GrantSet(t)
    \/ \E t \in Tasks : GrantCreateAlarm(t)
    \/ \E t \in Tasks : SyncGetSites(t)
    \/ \E t \in Tasks : SyncGetRules(t)
    \/ \E t \in Tasks : SyncGetSession(t)
    \/ \E t \in Tasks : SyncUpdate(t)
    \/ \E t \in Tasks : RevokeRemove(t)
    \/ \E t \in Tasks : RevokeClear(t)
    \/ \E t \in Tasks : TabsGetSites(t)
    \/ \E t \in Tasks : TabsQuery(t)
    \/ \E t \in Tasks : RedirectGet(t)
    \/ \E t \in Tasks : RedirectUpdate(t)
    \/ \E t \in Tasks : UnlockGet(t)
    \/ \E t \in Tasks : UnlockRemove(t)
    \/ AllIdle /\ Tick

SpecLedger == InitPeek /\ [][NextLedger]_vars

----------------------------------------------------------------------------
(* Observations *)

(* the unlock ledger of the active backend *)
Ledger == IF isMV3 THEN session ELSE unlockedSites

Unlocked(siteId) == Ledger[siteId] # NoState /\ Ledger[siteId].expiresAt > now

StoredRules(siteId) ==
    UNION {SeqRange(SiteRules([blockedSites[i] EXCEPT !.enabled = TRUE], i - 1, {})) :
             i \in {j \in 1..Len(blockedSites) : blockedSites[j].id = siteId}}

Enabled(siteId) ==
    \E i \in 1..Len(blockedSites) : blockedSites[i].id = siteId /\ blockedSites[i].enabled

RulesActive(siteId) == StoredRules(siteId) \subseteq dynamicRules

RulesAbsent(siteId) == StoredRules(siteId) \cap dynamicRules = {}

(* task t has just run one of its steps *)
Stepped(t) == tasks[t].op # "idle" /\ tasks'[t] # tasks[t]

----------------------------------------------------------------------------
(* C1: the fire of a relock alarm that was armed for another expiry than the one
   the ledger now holds (the alarm of an earlier grant, after a second grant of the
   same site wrote its record) is a no-op: it leaves the record in the ledger. *)
C1_StaleFireKeepsSecondGrant ==
    [][\A t \in Tasks, s \in SiteIds :
         LET staleFire ==
               IF isMV3
               THEN /\ tasks[t].op = "alarm" /\ tasks[t].pc = "r_remove"
                    /\ tasks[t].siteId = s /\ Stepped(t)
                    /\ session[s].expiresAt # tasks[t].when
               ELSE /\ tasks[t].op = "idle" /\ tasks'[t].op = "alarm"
                    /\ tasks'[t].siteId = s
                    /\ unlockedSites[s].expiresAt # alarms[s]
         IN  (Ledger[s] # NoState /\ staleFire) => Ledger'[s] = Ledger[s]]_vars

(* C2: in every state, a site that has an UnlockRecord has its relock alarm armed
   for exactly the record's expiresAt. *)
C2_RecordHasMatchingTimer ==
    \A s \in SiteIds : Ledger[s] # NoState => alarms[s] = Ledger[s].expiresAt

(* the rule table and the ledger agree on every enabled site: its block rules are
   active iff the ledger holds no unexpired record for it *)
TableAgreesWithLedger ==
    \A s \in SiteIds : Enabled(s) =>
        /\ ~Unlocked(s) => RulesActive(s)
        /\ Unlocked(s) => RulesAbsent(s)

(* C3: on the rule-table backend no awaited step of a grant, a revoke or a relock
   takes the system from a state where rule table and ledger agree to a state,
   visible to a navigation, where they disagree. *)
C3_GrantRevokeAtomic ==
    [][\A t \in Tasks :
         (/\ isMV3
          /\ tasks[t].op \in {"grant", "revoke", "alarm"}
          /\ Stepped(t)
          /\ TableAgreesWithLedger) => TableAgreesWithLedger']_vars

(* C4: on the rule-table backend, when the last resync in flight has settled and
   no record of the ledger is past its expiry, no resync was rejected and the rule
   table is exactly what the stored sites and the ledger compile to. *)
C4_ResyncReentrant ==
    (/\ isMV3
     /\ AllIdle
     /\ lastDone.op \in {"sync", "init", "grant", "revoke", "alarm"}
     /\ \A s \in SiteIds : session[s] # NoState => session[s].expiresAt > now)
    => /\ ~lastDone.err
       /\ dynamicRules = SeqRange(newRulesOf(blockedSites, session, now))

(* C5: of a relock-alarm fire and an explicit revoke of the same site, the one
   that finds the record already deleted by the other produces no tabs to
   redirect. *)
C5_SecondRelockNoOps ==
    /\ \A t \in Tasks :
         (/\ tasks[t].op = "alarm"
          /\ tasks[t].pc \notin {"r_remove"}
          /\ ~tasks[t].found
          /\ relocker[tasks[t].siteId] = "revoke")
         => tasks[t].pc \notin {"rd_get", "rd_update"}
    /\ (/\ lastDone.op \in {"alarm", "revoke"}
        /\ ~lastDone.found
        /\ ~lastDone.err
        /\ relocker[lastDone.siteId] \in {"alarm", "revoke"} \ {lastDone.op})
       => lastDone.tabsOut = <<>>

(* C7: once a revoke and a grant of the same site have both settled, and the
   revoke has deleted the record, no relock alarm is armed for the site. *)
C7_RevokeCancelsTimer ==
    (/\ AllIdle
     /\ lastDone.op \in {"grant", "revoke"}
     /\ relocker[lastDone.siteId] = "revoke"
     /\ Ledger[lastDone.siteId] = NoState)
    => alarms[lastDone.siteId] = NoAlarm

----------------------------------------------------------------------------
(* Fair scheduling: the clock advances, an alarm that is due is delivered, and
   every handler in flight takes its next step. A handler in flight always has a
   next step (each step is guarded by the handler's position alone), so Busy(t) is
   the enabling condition of Step(t) and the last conjunct is weak fairness of
   Step(t) written out. *)

Busy(t) == tasks[t].op # "idle"

Fairness ==
    /\ WF_vars(Tick)
    /\ WF_vars(\E t \in Tasks, siteId \in SiteIds : AlarmFire(t, siteId))
    /\ \A t \in Tasks : []<>(~Busy(t)) \/ []<><<Step(t)>>_vars

SpecLive == Init /\ [][Next]_vars /\ Fairness

(* C6: under fair delivery of alarms, every grant that has completed is followed
   by a state where the site has no UnlockRecord and, on the rule-table backend,
   the block rules of the site, if it is enabled, are active. *)
C6_RelockEventually ==
    \A s \in SiteIds :
        (granted[s] >= 0) ~>
            (/\ Ledger[s] = NoState
             /\ (isMV3 /\ Enabled(s)) => RulesActive(s))

----------------------------------------------------------------------------
(* C8: when revoke(siteId) is called twice in a row with nothing in between, the
   second call returns an empty tab list. *)
C8_SecondRevokeReturnsNoTabs ==
    (lastDone.op = "revoke" /\ lastDone.again) => lastDone.tabsOut = <<>>

(* isUnlocked(siteId) has returned v in this step *)
Returned(s, v) ==
    /\ lastDone'.op = "isUnlocked"
    /\ lastDone'.siteId = s
    /\ lastDone'.unlocked = v

(* this step is the ledger read of isUnlocked(s) *)
ReadsLedger(t, s) ==
    IF isMV3
    THEN At(t, "u_get") /\ tasks[t].op = "isUnlocked" /\ tasks[t].siteId = s /\ Stepped(t)
    ELSE /\ tasks' = tasks
         /\ calls' = calls + 1
         /\ lastDone'.op = "isUnlocked"
         /\ lastDone'.siteId = s

(* C9: isUnlocked(siteId) returns true iff the ledger holds a record of the site
   with expiresAt > now, and then changes nothing; when it finds a record with
   expiresAt <= now it deletes the record and returns false; when there is no
   record it returns false and changes nothing. *)
C9_IsUnlockedSemantics ==
    [][\A t \in Tasks, s \in SiteIds :
         /\ (ReadsLedger(t, s) /\ Ledger[s] = NoState) =>
                /\ Returned(s, FALSE)
                /\ UNCHANGED <<session, unlockedSites, alarms, dynamicRules, tabs,
                               blockedSites, cachedSites>>
         /\ (ReadsLedger(t, s) /\ Ledger[s] # NoState /\ Ledger[s].expiresAt > now) =>
                /\ Returned(s, TRUE)
                /\ UNCHANGED <<session, unlockedSites, alarms, dynamicRules, tabs,
                               blockedSites, cachedSites>>
         /\ (ReadsLedger(t, s) /\ Ledger[s] # NoState /\ Ledger[s].expiresAt <= now) =>
                IF isMV3
                THEN tasks'[t].op = "isUnlocked" /\ tasks'[t].pc = "u_remove"
                ELSE Returned(s, FALSE) /\ Ledger'[s] = NoState
         /\ (isMV3 /\ At(t, "u_remove") /\ tasks[t].siteId = s /\ Stepped(t)) =>
                /\ Returned(s, FALSE)
                /\ Ledger'[s] = NoState
                /\ UNCHANGED <<alarms, dynamicRules, tabs, blockedSites>>]_vars

(* C9 witness: isUnlocked found an expired record, deleted it and returned false *)
C9_Witness ==
    /\ lastDone.op = "isUnlocked"
    /\ ~lastDone.unlocked
    /\ lastDone.expiresAt >= 0
    /\ lastDone.expiresAt <= now
    /\ Ledger[lastDone.siteId] = NoState

(* C10: one call at a time. A grant of null or of at least one minute returns an
   expiresAt later than the clock; isUnlocked(siteId) called after a completed
   grant returns true at every clock value below the returned expiresAt, and at
   or past it returns false and leaves no record of the site in the ledger. *)
C10_GrantThenIsUnlocked ==
    /\ (lastDone.op = "grant" /\ ~lastDone.err /\ lastDone.arg # 0) =>
           /\ lastDone.expiresAt > now
           /\ granted[lastDone.siteId] = lastDone.expiresAt
    /\ (lastDone.op = "isUnlocked" /\ granted[lastDone.siteId] >= 0) =>
           /\ lastDone.unlocked <=> now < granted[lastDone.siteId]
           /\ lastDone.unlocked => Ledger[lastDone.siteId].expiresAt = granted[lastDone.siteId]
           /\ ~lastDone.unlocked => Ledger[lastDone.siteId] = NoState

(* C10 witness: after a completed grant the clock passed expiresAt and isUnlocked
   returned false *)
C10_Witness ==
    /\ lastDone.op = "isUnlocked"
    /\ granted[lastDone.siteId] >= 1
    /\ now >= granted[lastDone.siteId]
    /\ ~lastDone.unlocked
    /\ Ledger[lastDone.siteId] = NoState

----------------------------------------------------------------------------
(* C11: one call at a time. grant(siteId, d) returns expiresAt = now + d, with
   d = 60 when d is null, and when it has completed the ledger holds for the site
   the record carrying that expiresAt, whatever record it held before, one with a
   later expiry included. *)
C11_GrantWritesRecord ==
    (lastDone.op = "grant") =>
        /\ ~lastDone.err
        /\ lastDone.expiresAt =
               now + (IF lastDone.arg = Null THEN 60 ELSE lastDone.arg)
        /\ Ledger[lastDone.siteId] =
               [siteId |-> lastDone.siteId, expiresAt |-> lastDone.expiresAt]

(* C11 witness: a grant has completed that replaced a record expiring later *)
C11_Witness ==
    /\ lastDone.op = "grant"
    /\ lastDone.found
    /\ Ledger[lastDone.siteId].expiresAt = lastDone.expiresAt

----------------------------------------------------------------------------
(* the open tabs on a stored site: web pages that a deny rule of the enabled site
   matches and no allow rule of it matches *)
TabsOn(siteId) ==
    {id \in TabIds :
        /\ tabs[id].valid
        /\ tabs[id].scheme \in {"http", "https"}
        /\ \E i \in 1..Len(blockedSites) :
              LET site == blockedSites[i]
                  hit(allow) == \E k \in 1..Len(site.rules) :
                                    /\ site.rules[k].allow = allow
                                    /\ urlMatchesPattern(tabs[id], site.rules[k].pattern)
              IN  site.id = siteId /\ site.enabled /\ hit(FALSE) /\ ~hit(TRUE)}

(* what holds when a revoke has just completed *)
RevokeSettled ==
    (lastDone.op = "revoke") =>
        /\ ~lastDone.err
        /\ Ledger[lastDone.siteId] = NoState
        /\ alarms[lastDone.siteId] = NoAlarm
        /\ SeqRange(lastDone.tabsOut) = TabsOn(lastDone.siteId)
        /\ Len(lastDone.tabsOut) = Cardinality(TabsOn(lastDone.siteId))

(* C12: one call at a time. When revoke(siteId) has completed the site has no
   UnlockRecord and no relock alarm, the returned list is the set of tabs on the
   site, and no step of the revoke touched the record or the alarm of another
   site. *)
C12_RevokePostState ==
    /\ []RevokeSettled
    /\ [][\A t \in Tasks :
              (tasks'[t] # tasks[t] /\ "revoke" \in {tasks[t].op, tasks'[t].op}) =>
                  \A o \in SiteIds :
                      (o \notin {tasks[t].siteId, tasks'[t].siteId}) =>
                          Ledger'[o] = Ledger[o] /\ alarms'[o] = alarms[o]]_vars

(* C12 witness: a revoke has completed that deleted the record of its site and
   returned a tab, while another site holds a record and an alarm *)
C12_Witness ==
    /\ lastDone.op = "revoke"
    /\ lastDone.found
    /\ lastDone.tabsOut # <<>>
    /\ \E o \in SiteIds \ {lastDone.siteId} :
           Ledger[o] # NoState /\ alarms[o] = Ledger[o].expiresAt

----------------------------------------------------------------------------
(* the active rules in the id range of the site stored at position i *)
RulesOfSite(i) ==
    {r \in dynamicRules :
        /\ r.id >= 1000 + (i - 1) * 100
        /\ r.id < 1000 + i * 100}

DenyPatterns(site) == {k \in 1..Len(site.rules) : ~site.rules[k].allow}

(* the rule table is what the stored sites and the ledger call for: an enabled
   site without unexpired record has one main-frame block rule per deny pattern,
   any other site has none, and there is no rule besides *)
TableAsCompiled ==
    /\ \A i \in 1..Len(blockedSites) :
          LET site == blockedSites[i]
          IN  IF site.enabled /\ ~Unlocked(site.id)
              THEN /\ Cardinality(RulesOfSite(i)) = Cardinality(DenyPatterns(site))
                   /\ \A k \in DenyPatterns(site) :
                         \E r \in RulesOfSite(i) :
                             /\ r.action = "block"
                             /\ r.resourceTypes = {"main_frame"}
                             /\ r.regexFilter = RegexFilter(site.rules[k].pattern)
              ELSE RulesOfSite(i) = {}
    /\ dynamicRules = UNION {RulesOfSite(i) : i \in 1..Len(blockedSites)}

SiteIndex(siteId) == CHOOSE i \in 1..Len(blockedSites) : blockedSites[i].id = siteId

(* C13, as the code has it: one call at a time on the rule-table backend. When a
   grant or a revoke has completed the rule table is what the stored sites and the
   ledger call for; after a grant of null or of at least one minute the site has
   no rule, after a revoke an enabled site has one rule per deny pattern. *)
C13_TableAfterGrantRevoke ==
    (isMV3 /\ lastDone.op \in {"grant", "revoke"}) =>
        /\ ~lastDone.err
        /\ TableAsCompiled
        /\ (lastDone.op = "grant" /\ lastDone.arg # 0) =>
               RulesOfSite(SiteIndex(lastDone.siteId)) = {}
        /\ (lastDone.op = "revoke" /\ Enabled(lastDone.siteId)) =>
               Cardinality(RulesOfSite(SiteIndex(lastDone.siteId))) =
                   Cardinality(DenyPatterns(blockedSites[SiteIndex(lastDone.siteId)]))

(* C13 as stated: after every grant, whatever its duration, the site has no rule *)
C13_NoRuleAfterAnyGrant ==
    (isMV3 /\ lastDone.op = "grant") =>
        /\ TableAsCompiled
        /\ RulesOfSite(SiteIndex(lastDone.siteId)) = {}

(* C13 witness: a grant of an enabled site has completed, its rules are gone and
   the rule of the other site is active *)
C13_Witness ==
    /\ isMV3
    /\ lastDone.op = "grant"
    /\ lastDone.arg # 0
    /\ Enabled(lastDone.siteId)
    /\ RulesOfSite(SiteIndex(lastDone.siteId)) = {}
    /\ dynamicRules # {}


(* C14: one call at a time on the rule-table backend. When a resync started by a
   change of the stored sites has completed, every enabled site without unexpired
   record has exactly one rule per deny pattern, each a block rule for main-frame
   loads compiled from a deny pattern and none from an allow pattern; a disabled
   or unlocked site has no rule; the table holds nothing else. *)
C14_ResyncAlone ==
    (isMV3 /\ lastDone.op = "sync") =>
        /\ ~lastDone.err
        /\ TableAsCompiled
        /\ \A i \in 1..Len(blockedSites) :
              /\ \A r \in RulesOfSite(i) :
                    /\ r.action = "block"
                    /\ r.resourceTypes = {"main_frame"}
                    /\ \E k \in DenyPatterns(blockedSites[i]) :
                          r.regexFilter = RegexFilter(blockedSites[i].rules[k].pattern)
              /\ (~blockedSites[i].enabled \/ Unlocked(blockedSites[i].id)) =>
                    RulesOfSite(i) = {}
        /\ \A r \in dynamicRules : \E i \in 1..Len(blockedSites) : r \in RulesOfSite(i)

(* C14 witness: a resync has completed while one enabled site is unlocked and
   another site has its rules in the table *)
C14_Witness ==
    /\ isMV3
    /\ lastDone.op = "sync"
    /\ \E i \in 1..Len(blockedSites) :
          /\ blockedSites[i].enabled
          /\ Unlocked(blockedSites[i].id)
          /\ RulesOfSite(i) = {}
    /\ \E i \in 1..Len(blockedSites) : RulesOfSite(i) # {}


(* the state a start on the rule-table backend ends in: no expired record is left
   and the table is compiled from the remaining ledger *)
InitSettled ==
    (isMV3 /\ lastDone.op = "init") =>
        /\ ~lastDone.err
        /\ \A s \in SiteIds : session[s] # NoState => session[s].expiresAt > now
        /\ TableAsCompiled

(* C15: one call at a time on the rule-table backend. When initialize has completed
   no record with expiresAt <= now is left and the rule table is compiled from the
   remaining ledger; the step after the deletion of an expired record clears the
   alarm of that site; no step of initialize arms an alarm or changes a record with
   expiresAt > now or the alarm of its site. *)
C15_StartupReconciles ==
    /\ []InitSettled
    /\ [][\A t \in Tasks :
          (isMV3 /\ tasks'[t] # tasks[t] /\ tasks[t].op = "init") =>
              /\ tasks[t].pc = "i_clear" =>
                    /\ session[Head(tasks[t].expired)] = NoState
                    /\ alarms'[Head(tasks[t].expired)] = NoAlarm
              /\ \A s \in SiteIds :
                    /\ alarms'[s] \in {alarms[s], NoAlarm}
                    /\ (session[s] # NoState /\ session[s].expiresAt > now) =>
                          /\ session'[s] = session[s]
                          /\ alarms'[s] = alarms[s]]_vars

(* C15 witness: a start has purged an expired record while the other site keeps its
   unexpired record and the alarm armed for it *)
C15_Witness ==
    /\ isMV3
    /\ lastDone.op = "init"
    /\ lastDone.found
    /\ \E s \in SiteIds :
          /\ session[s] # NoState
          /\ session[s].expiresAt > now
          /\ alarms[s] = session[s].expiresAt
    /\ \E s \in SiteIds : session[s] = NoState /\ alarms[s] = NoAlarm


(* C16: one call at a time on the live-intercept backend. A restart leaves the
   in-memory ledger empty, and afterwards a record appears only in the step that
   starts a grant for that site: neither the start itself nor a relock alarm left
   over from before the restart unlocks a site. *)
C16_RestartFailsSafe ==
    [][~isMV3 =>
          /\ (tasks[1].op # "init" /\ tasks'[1].op = "init") =>
                \A s \in SiteIds : unlockedSites'[s] = NoState
          /\ \A s \in SiteIds :
                (unlockedSites[s] = NoState /\ unlockedSites'[s] # NoState) =>
                    \E t \in Tasks :
                        /\ tasks[t].op = "idle"
                        /\ tasks'[t].op = "grant"
                        /\ tasks'[t].siteId = s]_vars

(* C16 witness: after a restart a relock alarm armed before it has fired and found
   no record, the alarm of the other site is still armed from before the restart,
   and no site has a record *)
C16_Witness ==
    /\ ~isMV3
    /\ lastDone.op = "alarm"
    /\ ~lastDone.found
    /\ \E s \in SiteIds \ {lastDone.siteId} :
          /\ alarms[s] # NoAlarm
          /\ now < alarms[s]
          /\ granted[s] = -1
    /\ \A s \in SiteIds : unlockedSites[s] = NoState


Stored(siteId) == \E i \in 1..Len(blockedSites) : blockedSites[i].id = siteId

(* C17 as stated: one call at a time. When a grant or a revoke for an id the store
   does not hold has completed, it was not rejected, the id has no record and no
   alarm, and a revoke returned no tab. *)
C17_UnknownSiteNoOp ==
    (lastDone.op \in {"grant", "revoke"} /\ ~Stored(lastDone.siteId)) =>
        /\ ~lastDone.err
        /\ Ledger[lastDone.siteId] = NoState
        /\ alarms[lastDone.siteId] = NoAlarm
        /\ lastDone.op = "revoke" => lastDone.tabsOut = <<>>


(* the last completed call was a revoke of the one stored site: its answer tells
   for every tab whether urlMatchesSiteRules held of the tab's URL and the site *)
Decided == lastDone.op = "revoke" /\ Len(blockedSites) = 1 /\ blockedSites[1].id = lastDone.siteId

IsBlocked(id) == id \in SeqRange(lastDone.tabsOut)

Hit(url, rules, allow) ==
    \E k \in 1..Len(rules) : rules[k].allow = allow /\ urlMatchesPattern(url, rules[k].pattern)

(* C18: the site blocks the URL exactly when it is enabled, no allow rule matches
   and some deny rule matches, and every reordering of the rule list gives the
   same decision. *)
C18_SiteDecision ==
    Decided =>
        \A id \in TabIds :
            LET site == blockedSites[1]
            IN  /\ IsBlocked(id) <=> /\ site.enabled
                                     /\ ~Hit(tabs[id], site.rules, TRUE)
                                     /\ Hit(tabs[id], site.rules, FALSE)
                /\ \A f \in Permutations(1..Len(site.rules)) :
                      urlMatchesSiteRules(tabs[id],
                          [site EXCEPT !.rules = [i \in 1..Len(site.rules) |-> site.rules[f[i]]]])
                        = IsBlocked(id)

(* C18 witness: the enabled site has a deny rule matching the URL ahead of an allow
   rule matching it, and the URL is not blocked *)
C18_Witness ==
    /\ Decided
    /\ blockedSites[1].enabled
    /\ \E j, k \in 1..Len(blockedSites[1].rules) :
          /\ j < k
          /\ ~blockedSites[1].rules[j].allow
          /\ blockedSites[1].rules[k].allow
          /\ urlMatchesPattern(tabs[1], blockedSites[1].rules[j].pattern)
          /\ urlMatchesPattern(tabs[1], blockedSites[1].rules[k].pattern)
    /\ ~IsBlocked(1)


(* the stored site is enabled and has the single deny rule p: its decision on a URL
   is the answer of urlMatchesPattern for p *)
Single(p) == Decided /\ blockedSites[1].enabled /\ blockedSites[1].rules = <<Rule(p, FALSE)>>

HostOf(id) == ToLowerCase(tabs[id].hostname)

(* C19: a pattern that, lowercased, trimmed and without scheme prefix and leading
   www., is a host P without path and without wildcard matches a URL exactly when
   the lowercase hostname is P or www.P; a.c and www.a.c as patterns each match the
   hosts a.c and www.a.c and no other, so not xa.c. *)
C19_HostOnlyPattern ==
    \A p \in SinglePatterns : \A id \in TabIds :
        LET P == NormalizePattern(p)
        IN  /\ (Single(p) /\ ~Includes(P, "/") /\ ~StartsWith(P, WildcardPrefix)) =>
                  (IsBlocked(id) <=> HostOf(id) \in {P, WwwPrefix \o P})
            /\ (Single(p) /\ p \in {MatchDomain, WwwPrefix \o MatchDomain}) =>
                  (IsBlocked(id) <=> HostOf(id) \in {MatchDomain, WwwPrefix \o MatchDomain})

(* C19 witness: the pattern www.a.c has matched a URL of host a.c *)
C19_Witness ==
    /\ Single(WwwPrefix \o MatchDomain)
    /\ tabs[1].hostname = MatchDomain
    /\ IsBlocked(1)

(* C20: a pattern that normalizes to *.D without path matches a URL exactly when the
   lowercase hostname is D or ends with .D; *.a.c matches a.c and its subdomains of
   any depth and not xa.c. *)
C20_WildcardPattern ==
    \A p \in SinglePatterns : \A id \in TabIds :
        LET P == NormalizePattern(p)
            D == Slice(P, 2)
        IN  /\ (Single(p) /\ ~Includes(P, "/") /\ StartsWith(P, WildcardPrefix)) =>
                  (IsBlocked(id) <=> (HostOf(id) = D \/ EndsWith(HostOf(id), <<".">> \o D)))
            /\ Single(WildcardPrefix \o MatchDomain) =>
                  (IsBlocked(id) <=> HostOf(id) # <<"x">> \o MatchDomain)

(* C20 witness: the pattern *.a.c has matched a URL of host t.s.a.c *)
C20_Witness ==
    /\ Single(WildcardPrefix \o MatchDomain)
    /\ tabs[1].hostname = <<"t", ".", "s", ".">> \o MatchDomain
    /\ IsBlocked(1)


PathOf(id) == ToLowerCase(tabs[id].pathname)

(* the host rule of C19 and C20, for the host part H of a pattern *)
HostRule(hostname, H) ==
    IF StartsWith(H, WildcardPrefix)
    THEN hostname = Slice(H, 2) \/ EndsWith(hostname, <<".">> \o Slice(H, 2))
    ELSE hostname \in {H, WwwPrefix \o H}

PatternHostPart(P) == SubSeq(P, 1, IndexOf(P, "/") - 1)

PatternPathPart(P) == SubSeq(P, IndexOf(P, "/"), Len(P))

(* C21, as the code has it: a pattern that normalizes to host/path matches a URL
   exactly when the host part matches the lowercase hostname under the host or the
   wildcard rule and the lowercase pathname starts with /path or equals /path
   without one trailing slash; a.c/ok matches a.c/ok/1 and does not match a.c/. *)
C21_PathPattern ==
    \A p \in SinglePatterns : \A id \in TabIds :
        LET P == NormalizePattern(p)
        IN  /\ (Single(p) /\ Includes(P, "/")) =>
                  (IsBlocked(id) <=>
                      /\ HostRule(HostOf(id), PatternHostPart(P))
                      /\ \/ StartsWith(PathOf(id), PatternPathPart(P))
                         \/ PathOf(id) = StripTrailingSlash(PatternPathPart(P)))
            /\ (Single(MatchDomain \o <<"/", "o", "k">>) /\ HostOf(id) = MatchDomain) =>
                  (IsBlocked(id) <=> PathOf(id) \notin {<<"/">>, <<"/", "o">>})

(* C21 as stated, its last clause: a URL whose pathname does not start with the
   path of the pattern is not matched *)
C21_NoMatchOffPath ==
    \A p \in SinglePatterns : \A id \in TabIds :
        LET P == NormalizePattern(p)
        IN  (Single(p) /\ Includes(P, "/") /\ ~StartsWith(PathOf(id), PatternPathPart(P))) =>
                ~IsBlocked(id)

(* C21 witness: the pattern a.c/ok has matched the URL a.c/ok/1 *)
C21_Witness ==
    /\ Single(MatchDomain \o <<"/", "o", "k">>)
    /\ tabs[1].hostname = MatchDomain
    /\ tabs[1].pathname = <<"/", "o", "k", "/", "1">>
    /\ IsBlocked(1)


----------------------------------------------------------------------------
(* Navigation observations *)

(* the challenge page, as the core builds its address *)
IsChallengePage(url) == url.scheme = "chrome-extension" /\ Len(url.query) = 2

(* this step points tab id at a challenge page *)
Redirected(id) == tabs'[id] # tabs[id] /\ IsChallengePage(tabs'[id])

(* this step is the tabs.query of a relock or revoke returning its list *)
Listed(t) == tasks[t].pc = "t_query" /\ tasks'[t].pc # "t_query"

(* C22: internal URLs are always exempt: the listener never aborts a request for
   an internal URL, no step redirects a navigation or tab whose URL is internal
   (the challenge page included), and the reconciler lists no internal tab *)
C22_InternalExempt ==
    /\ [](lastDone.op = "request" /\ isInternalUrl(lastDone.url) => ~lastDone.cancel)
    /\ [][/\ \A id \in TabIds : Redirected(id) => ~isInternalUrl(tabs'[id].query[1])
          /\ \A t \in Tasks : Listed(t) =>
                 \A k \in 1..Len(tasks'[t].todo) : ~isInternalUrl(tabs[tasks'[t].todo[k]])
         ]_vars


(* the cached sites that are enabled, hold no unexpired record and block the url:
   no allow rule matches it and some deny rule does *)
LockedBlockers(url) ==
    {i \in 1..Len(cachedSites) :
        /\ cachedSites[i].enabled
        /\ ~(/\ unlockedSites[cachedSites[i].id] # NoState
             /\ unlockedSites[cachedSites[i].id].expiresAt > now)
        /\ ~Hit(url, cachedSites[i].rules, TRUE)
        /\ Hit(url, cachedSites[i].rules, FALSE)}

(* C23: on the live-intercept backend a request is aborted exactly when it is a
   top-level load of a non-internal URL that some enabled cached site without
   unexpired record blocks; an unlocked site before it in the cache does not
   hide that site, and a request that is not top-level is never aborted *)
C23_ListenerAborts ==
    (~isMV3 /\ lastDone.op = "request") =>
        /\ lastDone.cancel <=> /\ lastDone.type = "main_frame"
                               /\ ~isInternalUrl(lastDone.url)
                               /\ LockedBlockers(lastDone.url) # {}
        /\ lastDone.cancel =>
               \E i \in LockedBlockers(lastDone.url) : cachedSites[i].id = lastDone.siteId

(* a load of a page of both sites is aborted for the second site while the
   first, enabled, is unlocked *)
C23_Witness ==
    /\ ~isMV3
    /\ lastDone.op = "request"
    /\ lastDone.cancel
    /\ lastDone.siteId = "b"
    /\ cachedSites[1].enabled
    /\ Hit(lastDone.url, cachedSites[1].rules, FALSE)
    /\ ~Hit(lastDone.url, cachedSites[1].rules, TRUE)
    /\ unlockedSites["a"] # NoState
    /\ unlockedSites["a"].expiresAt > now

(* the stored site with this id blocks the url *)
SiteBlocks(siteId, url) ==
    \E i \in 1..Len(blockedSites) :
        /\ blockedSites[i].id = siteId
        /\ blockedSites[i].enabled
        /\ Hit(url, blockedSites[i].rules, FALSE)
        /\ ~Hit(url, blockedSites[i].rules, TRUE)

(* handler t is at its tabs.update and this step completes it *)
Redirects(t) == tasks[t].pc = "rd_update" /\ tasks'[t] # tasks[t]

(* C24: every blocked navigation is redirected to the challenge page with url the
   original destination and siteId the id of the blocking site: an abort by the
   listener comes with a tabs.update of the same tab, and every redirect, by the
   listener, the hook or the relock, sets the tab to the challenge page carrying
   the url and the site id its handler holds *)
C24_RedirectCarriesUrlAndSite ==
    /\ [](lastDone.op = "request" /\ lastDone.cancel =>
              \E t \in Tasks : /\ tasks[t].op = "abort"
                               /\ tasks[t].pc = "rd_update"
                               /\ tasks[t].todo = <<lastDone.tab>>
                               /\ tasks[t].url = lastDone.url
                               /\ tasks[t].siteId = lastDone.siteId)
    /\ [](\A t \in Tasks : tasks[t].op \in {"abort", "hook"} /\ tasks[t].pc = "rd_update"
              => SiteBlocks(tasks[t].siteId, tasks[t].url))
    /\ [][\A t \in Tasks : Redirects(t) =>
              LET id == Head(tasks[t].todo)
              IN  /\ IsChallengePage(tabs'[id])
                  /\ tabs'[id].query = <<tasks[t].url, tasks[t].siteId>>
                  /\ \A other \in TabIds \ {id} : tabs'[other] = tabs[other]]_vars

(* the listener aborted a load and the tab now shows the challenge page for the
   aborted url and the aborting site *)
C24_Witness ==
    /\ lastDone.op = "abort"
    /\ \E url \in NavUrls : tabs[1].query = <<url, lastDone.siteId>> /\ SiteBlocks(lastDone.siteId, url)

(* the awaited calls only the rule-table backend makes, and those only the
   live-intercept backend makes *)
RuleTablePcs ==
    {"g_set", "s_sites", "s_rules", "s_session", "s_update", "r_remove", "t_sites",
     "u_get", "u_remove", "i_get", "i_remove", "i_clear", "h_get", "h_remove"}

LiveInterceptPcs == {"c_get", "c_assign"}

(* C25: one backend is chosen at startup and the choice never changes; every
   call runs in the chosen backend, and the other backend never initializes,
   never writes its ledger, its cache or the rule table *)
C25_OneBackend ==
    /\ [][isMV3' = isMV3]_vars
    /\ [](isMV3 => /\ \A s \in SiteIds : unlockedSites[s] = NoState
                   /\ cachedSites = <<>>
                   /\ \A t \in Tasks : tasks[t].pc \notin LiveInterceptPcs)
    /\ [](~isMV3 => /\ \A s \in SiteIds : session[s] = NoState
                    /\ dynamicRules = {}
                    /\ \A t \in Tasks : tasks[t].pc \notin RuleTablePcs)

(* both backends have served a grant: the chosen one holds the record, its own
   startup ran, and the other one is untouched *)
C25_Witness ==
    /\ lastDone.op = "grant"
    /\ IF isMV3
       THEN session[lastDone.siteId] # NoState /\ dynamicRules # {}
       ELSE unlockedSites[lastDone.siteId] # NoState /\ cachedSites # <<>>

(* the answer findTabs owes for this site id: the open tabs that show no internal
   page and whose URL the stored site with that id blocks *)
TabsOnSite(siteId) ==
    {id \in TabIds : /\ tabs[id] # NoUrl
                     /\ ~isInternalUrl(tabs[id])
                     /\ SiteBlocks(siteId, tabs[id])}

(* handler t is inside findTabs and this step is one of its two awaited calls *)
FindingTabs(t) == tasks[t].pc \in {"t_sites", "t_query"} /\ tasks'[t] # tasks[t]

(* C26: findTabs returns exactly the ids of the open tabs that show no internal
   page and whose URL the stored site with that id blocks, whatever the unlock
   state was; it returns no tab for an id the store does not hold, and its steps
   change no state *)
C26_FindTabsExact ==
    /\ [](lastDone.op = "revoke" =>
              /\ SeqRange(lastDone.tabsOut) = TabsOnSite(lastDone.siteId)
              /\ Len(lastDone.tabsOut) = Cardinality(TabsOnSite(lastDone.siteId))
              /\ ~Stored(lastDone.siteId) => lastDone.tabsOut = <<>>)
    /\ [][\A t \in Tasks : FindingTabs(t) =>
              UNCHANGED <<blockedSites, session, unlockedSites, cachedSites, alarms,
                          dynamicRules, tabs>>]_vars

(* a revoke of a site that was unlocked returned the tab that shows one of its
   pages *)
C26_Witness ==
    /\ lastDone.op = "revoke"
    /\ lastDone.found
    /\ lastDone.tabsOut = <<1>>

(* C27: every successful unlock-site request is followed by a site-unlocked
   broadcast and every timer relock by a site-relocked broadcast: when the
   request has been answered, or the relock has run to its end, the event has
   been sent *)
C27_BroadcastFollows ==
    /\ (lastDone.op = "grant" /\ ~lastDone.err) => lastDone.event = "site-unlocked"
    /\ lastDone.op = "alarm" => lastDone.event = "site-relocked"


(* the active backend reflects the stored list: the rule table holds rules of
   stored enabled sites only and all rules of every enabled site without record;
   the site cache is the stored list *)
ReflectsStore ==
    IF isMV3
    THEN /\ dynamicRules \subseteq UNION {StoredRules(s) : s \in {k \in SiteIds : Enabled(k)}}
         /\ \A s \in SiteIds : (Enabled(s) /\ session[s] = NoState) => RulesActive(s)
    ELSE cachedSites = blockedSites

(* C28: after the last change of the Site Rule Store the active backend
   eventually reflects exactly the stored list, and stays so *)
C28_StoreChangeReflected == <>[](AllIdle => ReflectsStore)

(* C29: toggle round trip on the rule table, one call at a time: when the resync
   after a toggle (or the one at startup) has completed, a disabled site has no
   rule, and an enabled site without unexpired record has exactly the rules its
   index and its deny patterns give, the same ids and filters each time it is
   enabled again *)
C29_ToggleRoundTrip ==
    (isMV3 /\ lastDone.op \in {"init", "sync"}) =>
        /\ ~lastDone.err
        /\ \A i \in 1..Len(blockedSites) :
              LET site == blockedSites[i]
              IN  IF ~site.enabled \/ Unlocked(site.id)
                  THEN RulesOfSite(i) = {}
                  ELSE RulesOfSite(i) = StoredRules(site.id)

(* after two toggles every site is enabled again and the first one, locked, has
   its rules back *)
C29_Witness ==
    /\ isMV3
    /\ lastDone.op = "sync"
    /\ calls = 2
    /\ \A i \in 1..Len(blockedSites) : blockedSites[i].enabled
    /\ ~Unlocked(blockedSites[1].id)
    /\ RulesOfSite(1) = StoredRules(blockedSites[1].id)
    /\ RulesOfSite(1) # {}

(* the deny patterns of the site that come before position k in its rule list *)
DenyRank(site, k) == Cardinality({j \in DenyPatterns(site) : j < k})

(* C30: rule ids are unique: in every rule set a resync has compiled from the
   stored list it read, each rule has the id 1000 + siteIndex * 100 +
   patternIndex of one deny pattern of an enabled site, patternIndex counted
   among the deny patterns of that site, and no two rules share an id *)
C30_RuleIdsUnique ==
    \A t \in Tasks :
        tasks[t].pc = "s_update" =>
            LET rules == tasks[t].newRules
                sites == tasks[t].sites
            IN  /\ \A k, l \in 1..Len(rules) : k # l => rules[k].id # rules[l].id
                /\ \A k \in 1..Len(rules) :
                      \E i \in 1..Len(sites) : \E j \in DenyPatterns(sites[i]) :
                          /\ sites[i].enabled
                          /\ rules[k].id = 1000 + (i - 1) * 100 + DenyRank(sites[i], j)
                          /\ rules[k].regexFilter = RegexFilter(sites[i].rules[j].pattern)
                /\ \A i \in 1..Len(sites) : \A j \in DenyPatterns(sites[i]) :
                      sites[i].enabled =>
                          \E k \in 1..Len(rules) :
                              rules[k].id = 1000 + (i - 1) * 100 + DenyRank(sites[i], j)

(* a resync has compiled the second deny pattern of the first site, which stands
   third in its rule list, and the second deny pattern of the second site *)
C30_Witness ==
    \E t \in Tasks :
        /\ tasks[t].pc = "s_update"
        /\ Len(tasks[t].sites) = 2
        /\ Len(tasks[t].sites[1].rules) = 3
        /\ tasks[t].sites[1].rules[2].allow
        /\ {1000, 1001, 1100, 1101} \subseteq {tasks[t].newRules[k].id : k \in 1..Len(tasks[t].newRules)}


(* the slots the enabled sites of the list may fill: one per deny pattern, at most
   MAX_RULES_PER_SITE for a site *)
SlotsOf(sites) ==
    {<<i, j>> \in (1..Len(sites)) \X (1..MAX_RULES_PER_SITE) :
        sites[i].enabled /\ j <= Cardinality(DenyPatterns(sites[i]))}

(* C31: a site with more deny patterns than MAX_RULES_PER_SITE contributes at
   most that many rules to the compiled set, the other patterns are dropped, no
   resync fails, and after the resync every other enabled site has its rules *)
C31_SlotBound ==
    /\ \A t \in Tasks :
          tasks[t].pc = "s_update" =>
              Len(tasks[t].newRules) <= Cardinality(SlotsOf(tasks[t].sites))
    /\ lastDone.op \in {"init", "sync"} =>
          /\ ~lastDone.err
          /\ \A i \in 1..Len(blockedSites) :
                (/\ blockedSites[i].enabled
                 /\ Cardinality(DenyPatterns(blockedSites[i])) <= MAX_RULES_PER_SITE)
                    => RulesOfSite(i) = StoredRules(blockedSites[i].id)

(* C32: per-tab failure tolerance on relock: when the listener has gone through
   the tabs revokeAccess returned, every tab of the list that is still open shows
   the challenge page of the relocked site, whatever happened to the other tabs,
   and the relock stands: the listener did not fail, the record is gone, no
   alarm is armed and the rules of the site are active *)
C32_BatchNotAborted ==
    lastDone.op = "alarm" =>
        /\ ~lastDone.err
        /\ \A k \in 1..Len(lastDone.tabsOut) :
              LET tab == tabs[lastDone.tabsOut[k]]
              IN  \/ tab = NoUrl
                  \/ IsChallengePage(tab) /\ tab.query[2] = lastDone.siteId
        /\ Ledger[lastDone.siteId] = NoState
        /\ alarms[lastDone.siteId] = NoAlarm
        /\ isMV3 => RulesActive(lastDone.siteId)

(* the first tab of the list was closed before its turn and the second one was
   redirected all the same *)
C32_Witness ==
    /\ lastDone.op = "alarm"
    /\ lastDone.tabsOut = <<1, 2>>
    /\ tabs[1] = NoUrl
    /\ IsChallengePage(tabs[2])

(* this step belongs to a peek of site s: on the rule-table backend one of its
   awaited calls returns, on the live-intercept backend the whole call runs *)
PeekStep(s) ==
    IF isMV3
    THEN \E t \in Tasks : tasks[t].op = "peek" /\ tasks[t].siteId = s /\ Stepped(t)
    ELSE tasks' = tasks /\ lastDone'.op = "peek" /\ lastDone'.siteId = s

(* this step is the ledger read of a peek or of an isUnlocked of site s, and the
   call answers in it *)
AnswersFromRead(s) ==
    /\ lastDone'.op \in {"peek", "isUnlocked"}
    /\ lastDone'.siteId = s
    /\ isMV3 => \E t \in Tasks : At(t, "u_get") /\ Stepped(t)

(* C33: peek agrees with isUnlocked: either of them, reading the ledger, answers
   unlocked exactly when the record of the site has expiresAt > now, and peek
   returns the stored expiresAt; a peek changes no state except that it deletes a
   record of its site that has expired *)
C33_PeekAgrees ==
    [][\A s \in SiteIds :
         /\ AnswersFromRead(s) =>
                /\ lastDone'.unlocked <=> Unlocked(s)
                /\ lastDone'.unlocked => lastDone'.expiresAt = Ledger[s].expiresAt
         /\ PeekStep(s) =>
                /\ UNCHANGED <<alarms, dynamicRules, tabs, blockedSites, cachedSites>>
                /\ \A k \in SiteIds :
                      \/ Ledger'[k] = Ledger[k]
                      \/ /\ k = s
                         /\ Ledger'[k] = NoState
                         /\ Ledger[k].expiresAt <= now]_vars

(* C34: site identity is immutable and update is framed: no step changes the
   createdAt of a stored id; the list an update writes has the length, the ids
   and the createdAt values of the list it read, in the same order, and differs
   from it only in the site with the id; an update of an id the list does not
   hold writes nothing *)
C34_IdentityImmutable ==
    [][/\ \A i \in 1..Len(blockedSites), j \in 1..Len(blockedSites') :
             blockedSites'[j].id = blockedSites[i].id
                 => blockedSites'[j].createdAt = blockedSites[i].createdAt
       /\ \A t \in Tasks :
             /\ (At(t, "st_set") /\ tasks[t].op \in UpdateOps /\ Stepped(t)) =>
                    /\ Len(blockedSites') = Len(tasks[t].sites)
                    /\ \A i \in 1..Len(tasks[t].sites) :
                          /\ blockedSites'[i].id = tasks[t].sites[i].id
                          /\ blockedSites'[i].createdAt = tasks[t].sites[i].createdAt
                          /\ tasks[t].sites[i].id # tasks[t].siteId
                                 => blockedSites'[i] = tasks[t].sites[i]
             /\ (/\ At(t, "st_get") /\ tasks[t].op \in UpdateOps /\ Stepped(t)
                 /\ \A i \in 1..Len(blockedSites) : blockedSites[i].id # tasks[t].siteId)
                    => /\ blockedSites' = blockedSites
                       /\ tasks'[t] = IdleTask]_vars

(* an update of the second site of two has been written *)
C34_Witness ==
    /\ lastDone.op \in UpdateOps
    /\ lastDone.siteId = "b"
    /\ Len(blockedSites) = 2
    /\ blockedSites[1] = StoredSite("a", 0, 1, TRUE)
    /\ blockedSites[2].id = "b"
    /\ blockedSites[2] # StoredSite("b", 0, 2, FALSE)


(* C38: no update is lost in the Site Rule Store: the list a mutation writes is
   the list stored just before its write with the mutation applied, so a write
   made by another mutation since this one read the list is still in it *)
C38_NoLostUpdate ==
    [][\A t \in Tasks :
         (At(t, "st_set") /\ tasks[t].op \in StoreOps /\ Stepped(t))
             => blockedSites' = Mutated(tasks[t], blockedSites)]_vars

(* the Pattern Matcher blocks the URL for some enabled site that is not unlocked *)
MatcherBlocks(url) ==
    \E i \in 1..Len(blockedSites) :
        /\ blockedSites[i].enabled
        /\ ~Unlocked(blockedSites[i].id)
        /\ urlMatchesSiteRules(url, blockedSites[i])

(* C35: the rule table enforces the decision of the Pattern Matcher: after a
   resync on the rule-table backend the installed rules block a top-level URL
   exactly when the matcher says blocked for some enabled site without an
   unexpired record *)
C35_TableEnforcesMatcher ==
    (isMV3 /\ AllIdle) =>
        \A id \in DOMAIN tabs : TableBlocks(tabs[id]) <=> MatcherBlocks(tabs[id])


(* some enabled stored site without unexpired record blocks the url *)
LockedSiteBlocks(url) ==
    \E i \in 1..Len(blockedSites) :
        /\ blockedSites[i].enabled
        /\ ~Unlocked(blockedSites[i].id)
        /\ urlMatchesSiteRules(url, blockedSites[i])

(* C36: overlapping sites: the navigation hook lets a committed navigation stand
   as unlocked only when no enabled locked site blocks its url; with the first
   matching site unlocked and a later matching site locked it redirects *)
C36_OverlapStaysBlocked ==
    [][\A t \in Tasks :
         (/\ tasks[t].op = "hook"
          /\ Stepped(t)
          /\ tasks'[t] = IdleTask
          /\ lastDone'.unlocked)
             => ~LockedSiteBlocks(tasks[t].url)]_vars


(* C37: a relock redirects only the tabs that are still on the site at the moment
   of the redirect: the tab its tabs.update changes shows, just before, a URL the
   rules of the relocked site match *)
C37_RelockOnlyTabsStillOnSite ==
    [][\A t \in Tasks :
         (/\ tasks[t].op = "alarm"
          /\ Redirects(t)
          /\ tabs'[Head(tasks[t].todo)] # tabs[Head(tasks[t].todo)])
             => \E i \in 1..Len(blockedSites) :
                   /\ blockedSites[i].id = tasks[t].siteId
                   /\ urlMatchesSiteRules(tabs[Head(tasks[t].todo)], blockedSites[i])]_vars


(* C39: a failed grant leaves the site locked: when a grant on the rule-table
   backend has been answered with an error and no other grant of the site is in
   flight, the ledger holds no record of the site without a timer armed at its
   expiry *)
C39_FailedGrantLeavesLocked ==
    (/\ isMV3
     /\ lastDone.op = "grant"
     /\ lastDone.err
     /\ \A t \in Tasks : ~(tasks[t].op = "grant" /\ tasks[t].siteId = lastDone.siteId))
        => \/ session[lastDone.siteId] = NoState
           \/ alarms[lastDone.siteId] = session[lastDone.siteId].expiresAt

(* the site a ledger call that ends in this step was about *)
EndedFor == lastDone'.siteId

(* C40: the two backends implement the same unlock ledger: with one call at a
   time, what a call returns and what it leaves in the ledger and in the timers
   is the same function of the ledger, the timers, the clock and the arguments
   on either backend. A grant returns now plus the duration and leaves that
   record and a timer at its expiry; a revoke or timer fire leaves neither
   record nor timer; isUnlocked and peek answer unlocked exactly for a record
   with expiresAt > now, peek with the stored expiresAt, and remove nothing but
   an expired record; no call touches the record or timer of another site *)
C40_SameLedger ==
    [][/\ lastDone'.op = "grant" =>
              /\ ~lastDone'.err
              /\ lastDone'.expiresAt = now + DurationMinutes(lastDone'.arg)
              /\ Ledger'[EndedFor] = [siteId |-> EndedFor, expiresAt |-> lastDone'.expiresAt]
              /\ alarms'[EndedFor] = lastDone'.expiresAt
       /\ lastDone'.op \in {"revoke", "alarm"} =>
              /\ Ledger'[EndedFor] = NoState
              /\ alarms'[EndedFor] = NoAlarm
       /\ lastDone'.op \in {"isUnlocked", "peek"} =>
              /\ lastDone'.unlocked <=> Unlocked(EndedFor)
              /\ lastDone'.unlocked => lastDone'.expiresAt = Ledger[EndedFor].expiresAt
              /\ Ledger'[EndedFor] = IF Unlocked(EndedFor) THEN Ledger[EndedFor] ELSE NoState
              /\ alarms' = alarms
       /\ \A k \in SiteIds :
              (Ledger'[k] # Ledger[k] \/ alarms'[k] # alarms[k]) =>
                  \/ \E t \in Tasks : tasks[t].op # "idle" /\ tasks[t].siteId = k
                  \/ \E t \in Tasks : tasks'[t].op # "idle" /\ tasks'[t].siteId = k
                  \/ lastDone'.op # "none" /\ EndedFor = k]_vars

(* on the rule-table backend a peek has returned the record of a site whose
   timer is armed at the expiry of the record *)
C40_Witness ==
    /\ isMV3
    /\ lastDone.op = "peek"
    /\ lastDone.unlocked
    /\ session[lastDone.siteId].expiresAt = lastDone.expiresAt
    /\ alarms[lastDone.siteId] = lastDone.expiresAt

====
